---------------------------- MODULE Spec2Model ----------------------------
(***************************************************************************)
(* A model of the token-acquisition engine of msal-apichange               *)
(* (src/lib/msal-apichange/src/UserAgentApplication.ts): the token cache   *)
(* lookup, the renewal coordinator (acquireTokenSilent, registerCallback,  *)
(* the hidden iframe and its load timeout), the popup entry points and the *)
(* response correlator (getRequestInfo, saveTokenFromHash,                 *)
(* handleAuthenticationResponse).                                          *)
(*                                                                         *)
(* Two specifications are defined:                                         *)
(*   SpecCache  the cache lookup applied to every bounded cache content    *)
(*   Spec       the page-wide state machine of the engine                  *)
(***************************************************************************)
EXTENDS Integers, Sequences, FiniteSets, TLC

(***************************************************************************)
(* Bounds of the model and program constants.                              *)
(***************************************************************************)
\* Largest number of entries of a cache SpecCache starts from.
MaxEntries == 3

\* Largest value of the clock (Utils.now(), in seconds).
MaxNow == 1

\* Largest number of acquireTokenSilent calls of a behaviour of Spec.
MaxSilent == 2

\* Largest number of loginPopup calls of a behaviour of Spec.
MaxPopups == 1

\* Largest number of authentication requests (correlation states) issued.
MaxRequests == 2

\* Largest number of calls of the entry points in a behaviour of
\* SpecInteractive.
MaxCalls == 2

\* this.pConfig.system.tokenRenewalOffsetSeconds || 300
DefaultRenewalOffset == 300

\* A renewal offset a page may configure.
ConfiguredOffset == 50

(***************************************************************************)
(* Values.  JavaScript's null/undefined of a string-valued place is the    *)
(* string Null.                                                            *)
(***************************************************************************)
Null == "null"

\* The client ids an engine may be constructed with (one of each letter case).
ClientIds == {"cid", "Cid"}

\* A client id of another application sharing the storage.
OtherClientId == "other"

\* Home account identifiers.
Users == {"u1", "u2"}

\* Canonical authorities.
Authorities == {"authA", "authB"}

\* String.prototype.toLowerCase on the scope names of the model.
toLowerCase(s) ==
    CASE s = "S1" -> "s1"
      [] s = "S2" -> "s2"
      [] s = "Cid" -> "cid"
      [] OTHER -> s

\* The elements of an array.
Range(seq) == {seq[i] : i \in DOMAIN seq}

\* Array.prototype.join(" ").
RECURSIVE join(_)
join(seq) ==
    IF seq = <<>> THEN ""
    ELSE IF Len(seq) = 1 THEN seq[1]
    ELSE seq[1] \o " " \o join(Tail(seq))

VARIABLES
    clientId,                    \* this.pConfig.auth.clientId
    tokenRenewalOffsetSeconds,   \* this.pConfig.system.tokenRenewalOffsetSeconds
    now,                         \* Utils.now()
    cache,                       \* the access-token entries of pCacheStorage: key -> value
    lastLookup,                  \* the last getCachedToken call: request, result, cache before
    msal,                        \* the fields of the UserAgentApplication instance
    window,                      \* the page-wide registries the constructor puts on window
    storage,                     \* the request-scoped entries of pCacheStorage
    frames,                      \* the src of the hidden iframes of the document
    timers,                      \* the setTimeout timers that are armed
    requests,                    \* the authentication requests issued, by state
    server,                      \* the requests the STS has received and not answered
    promises,                    \* the promises the API calls returned
    navigations,                 \* the hidden-iframe navigations that happened, in order
    lastDispatch,                \* the last run of a dispatch callback
    lastResponse                 \* the last response handleAuthenticationResponse handled

engineVars ==
    <<msal, window, storage, frames, timers, requests, server, promises,
      navigations, lastDispatch, lastResponse>>

vars ==
    <<clientId, tokenRenewalOffsetSeconds, now, cache, lastLookup, msal, window,
      storage, frames, timers, requests, server, promises, navigations,
      lastDispatch, lastResponse>>

(***************************************************************************)
(* Token cache (UserAgentApplication.getCachedToken and its helpers).      *)
(***************************************************************************)
\* Utils.containsScope: every requested scope is among the cached scopes,
\* compared in lower case.
containsScope(cachedScopes, scopes) ==
    \A i \in DOMAIN scopes :
        toLowerCase(scopes[i]) \in {toLowerCase(c) : c \in Range(cachedScopes)}

\* A scope of the web API of the application "cid", as another application
\* requests it: the scope name holds the API's client id.
ApiScope == "api://cid/s1"

\* String.prototype.match on the strings of the model: s holds the text p.
includes(s, p) == s = p \/ (s = ApiScope /\ p = "cid")

\* The pieces of the text of JSON.stringify(key): the names of the fields and
\* their values.
keyText(key) ==
    {"authority", "clientId", "scopes", "userIdentifier",
     key.authority, key.clientId, key.userIdentifier} \cup Range(key.scopes)

\* key.match(pattern): the pattern is looked for anywhere in the serialised
\* key (a null pattern is looked for as the text "null").
match(key, pattern) == \E piece \in keyText(key) : includes(piece, pattern)

\* Storage.getAllAccessTokens(clientId, userIdentifier): the entries whose
\* serialised key matches both arguments.
getAllAccessTokens(store, cid, userIdentifier) ==
    {k \in DOMAIN store : match(k, cid) /\ match(k, userIdentifier)}

\* The authorities of a list of cache items, each once.
getUniqueAuthority(tokenCacheItems) == {k.authority : k \in tokenCacheItems}

\* const offset = this.pConfig.system.tokenRenewalOffsetSeconds || 300
\* (an unset offset and the offset 0 are both falsy).
renewalOffset(cfg) ==
    IF ~cfg.isSet \/ cfg.value = 0 THEN DefaultRenewalOffset ELSE cfg.value

\* Storage.removeItem on a cache key.
removeItem(store, key) == [k \in DOMAIN store \ {key} |-> store[k]]

\* The CacheResult values.
NoResult == [kind |-> "none", token |-> Null, errorDesc |-> Null, error |-> Null]

TokenResult(t) == [kind |-> "token", token |-> t, errorDesc |-> Null, error |-> Null]

MultipleTokensError ==
    [kind |-> "error", token |-> Null,
     errorDesc |-> "The cache contains multiple tokens satisfying the requirements",
     error |-> "multiple_matching_tokens_detected"]

MultipleAuthoritiesError ==
    [kind |-> "error", token |-> Null,
     errorDesc |-> "Multiple authorities found in the cache",
     error |-> "multiple_matching_tokens_detected"]

\* filteredItems with the authority comparison of the second loop left out.
filteredItems_ignoreAuthority(tokenCacheItems, request) ==
    {k \in tokenCacheItems : containsScope(k.scopes, request.scopes)}

\* The entries left by getCachedToken's filter loop: by scope when the
\* request has no authority, by scope and authority when it has one.
filteredItems(tokenCacheItems, request) ==
    IF request.authority = Null
    THEN {k \in tokenCacheItems : containsScope(k.scopes, request.scopes)}
    ELSE {k \in tokenCacheItems :
            containsScope(k.scopes, request.scopes)
            /\ k.authority = request.authority}

\* selectItem taking the first of several filtered items instead of failing.
selectItem_first(tokenCacheItems, filtered, request) ==
    IF filtered # {}
    THEN [found |-> TRUE, key |-> CHOOSE k \in filtered : TRUE, result |-> NoResult,
          authorityInstance |-> (CHOOSE k \in filtered : TRUE).authority]
    ELSE [found |-> FALSE, key |-> Null, result |-> NoResult,
          authorityInstance |-> request.authority]

\* selectItem choosing the error of several filtered items by the number of
\* their authorities.
selectItem_byAuthority(tokenCacheItems, filtered, request) ==
    IF Cardinality(filtered) = 1
    THEN [found |-> TRUE, key |-> CHOOSE k \in filtered : TRUE, result |-> NoResult,
          authorityInstance |-> (CHOOSE k \in filtered : TRUE).authority]
    ELSE IF Cardinality(filtered) > 1
    THEN [found |-> FALSE, key |-> Null,
          result |-> IF Cardinality(getUniqueAuthority(filtered)) > 1
                     THEN MultipleAuthoritiesError ELSE MultipleTokensError,
          authorityInstance |-> request.authority]
    ELSE [found |-> FALSE, key |-> Null, result |-> NoResult,
          authorityInstance |-> request.authority]

\* selectItem without the authority-list check of the no-match branch.
selectItem_noAuthorityCheck(tokenCacheItems, filtered, request) ==
    IF Cardinality(filtered) = 1
    THEN [found |-> TRUE, key |-> CHOOSE k \in filtered : TRUE, result |-> NoResult,
          authorityInstance |-> (CHOOSE k \in filtered : TRUE).authority]
    ELSE IF Cardinality(filtered) > 1
    THEN [found |-> FALSE, key |-> Null, result |-> MultipleTokensError,
          authorityInstance |-> request.authority]
    ELSE [found |-> FALSE, key |-> Null, result |-> NoResult,
          authorityInstance |-> request.authority]

\* The choice getCachedToken makes among the filtered items: the single item
\* whose expiry is to be checked (found), or the result it returns at once,
\* with the authority instance left in the request.
selectItem(tokenCacheItems, filtered, request) ==
    LET item(k) == [found |-> TRUE, key |-> k, result |-> NoResult,
                    authorityInstance |-> k.authority]
        return(r, a) == [found |-> FALSE, key |-> Null, result |-> r,
                         authorityInstance |-> a]
        authorityList == getUniqueAuthority(tokenCacheItems)
    IN  IF request.authority = Null
        THEN IF Cardinality(filtered) = 1
             THEN item(CHOOSE k \in filtered : TRUE)
             ELSE IF Cardinality(filtered) > 1
             THEN return(MultipleTokensError, Null)
             ELSE IF Cardinality(authorityList) > 1
                  THEN return(MultipleAuthoritiesError, Null)
                  ELSE return(NoResult, CHOOSE a \in authorityList : TRUE)
        ELSE IF Cardinality(filtered) = 0
             THEN return(NoResult, request.authority)
             ELSE IF Cardinality(filtered) = 1
             THEN item(CHOOSE k \in filtered : TRUE)
             ELSE return(MultipleTokensError, request.authority)

\* checkExpiry comparing the expiry with the clock alone.
checkExpiry_noOffset(store, key, nowv, cfg) ==
    IF store[key].expiresIn > nowv
    THEN [result |-> TokenResult(store[key].accessToken), store |-> store,
          authorityInstance |-> key.authority]
    ELSE [result |-> NoResult, store |-> removeItem(store, key),
          authorityInstance |-> key.authority]

\* The expiry check of the single matching entry: its token, or the entry
\* removed and no result.
checkExpiry(store, key, nowv, cfg) ==
    LET expired == store[key].expiresIn
        offset == renewalOffset(cfg)
    IN  IF expired # 0 /\ expired > nowv + offset
        THEN [result |-> TokenResult(store[key].accessToken), store |-> store,
              authorityInstance |-> key.authority]
        ELSE [result |-> NoResult, store |-> removeItem(store, key),
              authorityInstance |-> key.authority]

\* getCachedToken(authenticationRequest, account): the CacheResult, the
\* storage afterwards and the authority instance it leaves in the request.
getCachedToken(store, cid, request, account, nowv, cfg) ==
    LET tokenCacheItems == getAllAccessTokens(store, cid, account)
        sel == selectItem(tokenCacheItems,
                          filteredItems(tokenCacheItems, request), request)
    IN  IF tokenCacheItems = {}
        THEN [result |-> NoResult, store |-> store,
              authorityInstance |-> request.authority]
        ELSE IF sel.found
        THEN checkExpiry(store, sel.key, nowv, cfg)
        ELSE [result |-> sel.result, store |-> store,
              authorityInstance |-> sel.authorityInstance]

\* cacheDecision going on to the network on every CacheResult without a token.
cacheDecision_errorToNetwork(cacheResult) ==
    IF cacheResult.kind = "token" THEN "resolve" ELSE "network"

\* What acquireTokenSilent does with the CacheResult: resolve with the token,
\* reject with the error, or go on to the network (endpoint resolution and
\* renewal).
cacheDecision(cacheResult) ==
    IF cacheResult.kind = "token" THEN "resolve"
    ELSE IF cacheResult.kind = "error" THEN "reject"
    ELSE "network"

(***************************************************************************)
(* The state of the engine after construction.                             *)
(***************************************************************************)
\* The correlation states (request GUIDs) of the model, in order of issue;
\* NoState is the absence of one (null, or a missing property).
NoState == 0

StateIds == 1 .. MaxRequests

\* A state no request of the page was issued with, and the states a response
\* may carry.
ForeignState == MaxRequests + 1

AllStates == StateIds \cup {ForeignState}

\* The authority the engine is configured with.
DefaultAuthority == "authA"

\* The scopes acquireTokenSilent is called with: one scope in two letter
\* cases, and the client id alone (the id-token-only request).
SilentScopes == {<<"s1">>, <<"S1">>, <<clientId>>}

\* Scopes validateInputScope refuses: an empty array, and the client id
\* together with another scope.
InvalidScopes == {<<>>, <<clientId, "s1">>}

\* The keys of window.activeRenewals: the lower-cased, space-joined scopes of
\* a call, and the client id as configured.
RenewalKeys ==
    {join([i \in DOMAIN sc |-> toLowerCase(sc[i])]) :
        sc \in SilentScopes \cup InvalidScopes} \cup {clientId}

\* The hidden iframes: one per scope key for access tokens, one for id tokens.
FrameNames == {"msalRenewFrame" \o k : k \in RenewalKeys} \cup {"msalIdTokenFrame"}

\* The src of an iframe: no frame yet, blank ("" or about:blank), or the
\* navigate URL of the request of a state.
NoFrame == -1

Blank == 0

\* Constants.tokenRenewStatus*
tokenRenewStatusInProgress == "In Progress"

tokenRenewStatusCompleted == "Completed"

tokenRenewStatusCancelled == "Canceled"

\* Constants.login and Constants.renewToken (window.requestType).
LOGIN == "LOGIN"

RENEW_TOKEN == "RENEW_TOKEN"

\* The promise of a call that has not run a dispatch callback yet.
NoDispatch ==
    [state |-> NoState, waiters |-> <<>>, errorDesc |-> Null, token |-> Null,
     error |-> Null, by |-> Null]

\* The parameters of a hash without any, and the record of a page that has
\* handled no response yet.  A handled response is recorded with its
\* parameters as received, the request (state) it answers, the call whose
\* popup delivered it (NoCall for a hidden iframe), its classification by
\* getRequestInfo and the token cache before it was handled.
NoParameters ==
    [state |-> NoState, error |-> Null, error_description |-> Null,
     access_token |-> Null, scope |-> <<>>, expires_in |-> 0, id_token |-> Null,
     nonce |-> NoState, client_info |-> Null]

NoCall == 0

NoResponse ==
    [handled |-> FALSE, parameters |-> NoParameters, request |-> NoState,
     call |-> NoCall, requestType |-> Null, stateMatch |-> FALSE,
     registered |-> FALSE, before |-> <<>>]

\* window.location of the page the engine runs on, until it navigates away.
AppPage == "app"

\* isInIframe(): the window the instance runs in is not its own parent.
isInIframe(w) == w.parent # "window"

\* The decorator applying the decorated method in every context.
resolveTokenOnlyIfOutOfIframe_always(w) == FALSE

\* resolveTokenOnlyIfOutOfIframe: TRUE when the decorator returns a promise
\* whose executor does nothing instead of applying the decorated method.
resolveTokenOnlyIfOutOfIframe(w) == isInIframe(w)

\* The cookies of the page: none is set.
NoCookies ==
    [nonceIdToken |-> NoState, stateLogin |-> NoState,
     stateAcquireToken |-> NoState, authority |-> [st \in AllStates |-> Null]]

\* getItem(key, storeAuthStateInCookie): the cookie of that name when the
\* flag is set, the stored item otherwise.
getItem(m, sto, key) ==
    IF m.storeAuthStateInCookie THEN sto.cookie[key] ELSE sto[key]

\* getItem(authorityKey, storeAuthStateInCookie) for the authority of a state.
getAuthorityItem(m, sto, st) ==
    IF m.storeAuthStateInCookie THEN sto.cookie.authority[st]
    ELSE sto.authority[st]

\* setItem(key, value, storeAuthStateInCookie): the items of sto named in keys,
\* and the authority of each state in states, are mirrored to cookies when
\* the flag is set.
setItemCookie(m, sto, keys, states) ==
    IF ~m.storeAuthStateInCookie THEN sto
    ELSE [sto EXCEPT !.cookie =
             [nonceIdToken |-> IF "nonceIdToken" \in keys THEN sto.nonceIdToken
                               ELSE @.nonceIdToken,
              stateLogin |-> IF "stateLogin" \in keys THEN sto.stateLogin
                             ELSE @.stateLogin,
              stateAcquireToken |-> IF "stateAcquireToken" \in keys
                                    THEN sto.stateAcquireToken
                                    ELSE @.stateAcquireToken,
              authority |-> [st \in AllStates |->
                                IF st \in states THEN sto.authority[st]
                                ELSE @.authority[st]]]]

\* clearCookie(): the nonce and login-state cookies are expired.
clearCookie(sto) ==
    [sto EXCEPT !.cookie.nonceIdToken = NoState, !.cookie.stateLogin = NoState]

\* The constructor: flags false, the registries on window empty, nothing
\* armed, issued or pending; storage may hold the id token of an account
\* that signed in before.
InitEngine ==
    /\ msal \in [pLoginInProgress : {FALSE}, pAcquireTokenInProgress : {FALSE},
                 pSilentLogin : {FALSE}, pSilentAuthenticationState : {NoState},
                 pAccount : {Null}, pTokenReceivedCallback : BOOLEAN,
                 storeAuthStateInCookie : BOOLEAN,
                 navigateToLoginRequestUrl : BOOLEAN]
    /\ \E parent \in {"window", "top"} :
         window = [activeRenewals |-> [k \in RenewalKeys |-> NoState],
                   renewStates |-> <<>>,
                   callBackMappedToRenewStates |-> [st \in AllStates |-> Null],
                   callBacksMappedToRenewStates |-> [st \in AllStates |-> <<>>],
                   requestType |-> Null,
                   openedWindows |-> <<>>,
                   location |-> AppPage,
                   parent |-> parent]
    /\ storage \in
                 [idToken : {Null, "u1"},
                  nonceIdToken : {NoState}, stateLogin : {NoState},
                  stateAcquireToken : {NoState},
                  renewStatus : {[st \in AllStates |-> Null]},
                  authority : {[st \in AllStates |-> Null]},
                  acquireTokenUser : {[st \in AllStates |-> Null]},
                  cookie : {NoCookies},
                  urlHash : {Null}]

    /\ frames = [f \in FrameNames |-> NoFrame]
    /\ timers = {}
    /\ requests = <<>>
    /\ server = {}
    /\ promises = <<>>
    /\ navigations = <<>>
    /\ lastDispatch = NoDispatch
    /\ lastResponse = NoResponse

(***************************************************************************)
(* SpecCache: getCachedToken on every cache of at most MaxEntries entries. *)
(***************************************************************************)
\* The scope fields of the keys of the model ("s1" and "s2 S1").
KeyScopes == {<<"s1">>, <<"s2", "S1">>}

\* The cache keys of the model: the entries of account u1 of the engine's
\* client (AccountKeys), one entry of another account and one of another
\* client (ForeignKeys).
AccountKeys(cid) ==
    [authority : Authorities, clientId : {cid}, scopes : KeyScopes,
     userIdentifier : {"u1"}]

ForeignKeys(cid) ==
    [authority : {"authA"}, clientId : {cid}, scopes : {<<"s1">>},
          userIdentifier : {"u2"}]
    \cup [authority : {"authA"}, clientId : {OtherClientId}, scopes : {<<"s1">>},
          userIdentifier : {"u1"}]

\* The expiresIn fields of the model (epoch seconds), around now + offset;
\* the entries of other accounts and clients are not about to expire.
LongLived == DefaultRenewalOffset + MaxNow + 1

ExpiryValues == {ConfiguredOffset, DefaultRenewalOffset, LongLived}

\* The access token stored under a key: each entry holds its own token.
TokenOf(key) ==
    "AT:" \o key.authority \o ":" \o key.clientId \o ":" \o join(key.scopes)
          \o ":" \o key.userIdentifier

\* The configurations of the renewal offset: unset, 0, ConfiguredOffset.
OffsetConfigs ==
    {[isSet |-> FALSE, value |-> 0], [isSet |-> TRUE, value |-> 0],
     [isSet |-> TRUE, value |-> ConfiguredOffset]}

\* The requests of the model: scopes, and an authority or none.
LookupScopes == {<<"S1">>, <<"s2">>}

LookupRequests == [scopes : LookupScopes, authority : Authorities \cup {Null}]

NoLookup ==
    [done |-> FALSE, request |-> [scopes |-> <<>>, authority |-> Null],
     account |-> Null, result |-> NoResult, before |-> <<>>, at |-> 0]

InitCache ==
    /\ clientId = "Cid"
    /\ tokenRenewalOffsetSeconds \in OffsetConfigs
    /\ now = 0
    /\ \E keys \in SUBSET (AccountKeys(clientId) \cup ForeignKeys(clientId)) :
         /\ Cardinality(keys) <= MaxEntries
         /\ \E expiry \in [keys \cap AccountKeys(clientId) -> ExpiryValues] :
              cache = [k \in keys |->
                         [accessToken |-> TokenOf(k),
                          expiresIn |-> IF k \in AccountKeys(clientId)
                                        THEN expiry[k] ELSE LongLived,
                          idToken |-> Null, clientInfo |-> k.userIdentifier]]
    /\ lastLookup = NoLookup
    /\ InitEngine
    /\ msal.navigateToLoginRequestUrl
    /\ storage.idToken = "u1"
    /\ ~msal.pTokenReceivedCallback
    /\ ~msal.storeAuthStateInCookie
    /\ ~isInIframe(window)

\* A call of getCachedToken(request, account).
Lookup(request, account) ==
    LET r == getCachedToken(cache, clientId, request, account, now,
                            tokenRenewalOffsetSeconds)
    IN  /\ cache' = r.store
        /\ lastLookup' = [done |-> TRUE, request |-> request, account |-> account,
                          result |-> r.result, before |-> cache, at |-> now]
        /\ UNCHANGED <<clientId, tokenRenewalOffsetSeconds, now>>
        /\ UNCHANGED engineVars

\* A second of the clock.
Tick ==
    /\ now < MaxNow
    /\ now' = now + 1
    /\ UNCHANGED <<clientId, tokenRenewalOffsetSeconds, cache, lastLookup>>
    /\ UNCHANGED engineVars

NextCache ==
    \/ \E request \in LookupRequests, account \in Users \cup {Null} :
         Lookup(request, account)
    \/ Tick

SpecCache == InitCache /\ [][NextCache]_vars

(***************************************************************************)
(* SpecShared: getCachedToken on a storage shared with another application *)
(* that holds tokens for the web API of the application "cid".             *)
(***************************************************************************)
\* The entries of the engine's client "cid" for account u1.
OwnKeys ==
    [authority : {"authA"}, clientId : {"cid"}, scopes : {<<"s1">>, <<ApiScope>>},
     userIdentifier : {"u1"}]

\* The entries of the other application and of the other account.
SharedKeys ==
    [authority : Authorities, clientId : {OtherClientId}, scopes : {<<ApiScope>>},
     userIdentifier : Users]
    \cup [authority : {"authB"}, clientId : {"cid"}, scopes : {<<"s1">>},
          userIdentifier : {"u2"}]

SharedRequests ==
    [scopes : {<<"s1">>, <<ApiScope>>}, authority : Authorities \cup {Null}]

InitShared ==
    /\ clientId = "cid"
    /\ tokenRenewalOffsetSeconds \in OffsetConfigs
    /\ now = 0
    /\ \E keys \in SUBSET (OwnKeys \cup SharedKeys) :
         /\ Cardinality(keys) <= MaxEntries
         /\ cache = [k \in keys |->
                       [accessToken |-> TokenOf(k), expiresIn |-> LongLived,
                        idToken |-> Null, clientInfo |-> k.userIdentifier]]
    /\ lastLookup = NoLookup
    /\ InitEngine
    /\ msal.navigateToLoginRequestUrl
    /\ storage.idToken = "u1"
    /\ ~msal.pTokenReceivedCallback
    /\ ~msal.storeAuthStateInCookie
    /\ ~isInIframe(window)

NextShared ==
    \/ \E request \in SharedRequests, account \in Users \cup {Null} :
         Lookup(request, account)
    \/ Tick

SpecShared == InitShared /\ [][NextShared]_vars

\* A full-page navigation ends the execution context of the page: nothing
\* runs on it afterwards.
PageAlive == window.location = AppPage

(***************************************************************************)
(* The renewal coordinator: acquireTokenSilent, registerCallback, the       *)
(* hidden iframe and its load timeout.                                     *)
(***************************************************************************)
\* The promises the API calls of a behaviour may return, and the number of
\* calls of an API made so far.
Calls == 1 .. (MaxSilent + MaxPopups)

CallsOf(api) == Cardinality({c \in DOMAIN promises : promises[c].api = api})

\* The number of calls made of the interactive entry points (loginPopup,
\* loginRedirect, acquireTokenPopup, acquireTokenRedirect).
InteractiveCalls ==
    Cardinality({c \in DOMAIN promises : promises[c].api # "acquireTokenSilent"})

\* A promise as the executor leaves it; resolving is TRUE while the call
\* waits for ResolveEndpointsAsync, state is the correlation state its
\* continuation was registered under, cancelled the renewals that had timed
\* out when the call was made.
NewPromise(api, scopes, scope) ==
    [api |-> api, scopes |-> scopes, scope |-> scope, status |-> "pending",
     value |-> Null, resolving |-> FALSE, authority |-> Null, account |-> Null,
     state |-> NoState, cancelled |-> {}]

\* resolve and reject of a promise: the first settlement stands.
resolve(ps, c, token) ==
    IF ps[c].status = "pending"
    THEN [ps EXCEPT ![c].status = "resolved", ![c].value = token]
    ELSE ps

reject(ps, c, err) ==
    IF ps[c].status = "pending"
    THEN [ps EXCEPT ![c].status = "rejected", ![c].value = err]
    ELSE ps

\* getAccount(): the account kept in pAccount, or else the account of the id
\* token in storage, which the call then keeps in pAccount.
getAccount(m, sto) == IF m.pAccount # Null THEN m.pAccount ELSE sto.idToken

\* Constants.no_account, the user part of the acquireTokenUser key of a
\* request made without an account.
no_account == "NO_ACCOUNT"

\* validateInputScope: the message for invalid scopes, "" for valid ones.
validateInputScope(scopes) ==
    IF scopes = <<>> THEN "Scopes cannot be passed as an empty array"
    ELSE IF clientId \in Range(scopes) /\ Len(scopes) > 1
    THEN "ClientId can only be provided as a single scope"
    ELSE ""

\* filterScopes: the scopes without openid and profile.
filterScopes(scopes) ==
    SelectSeq(scopes, LAMBDA e : e # "openid" /\ e # "profile")

\* scopes.join(" ").toLowerCase()
scopeKey(scopes) == join([i \in DOMAIN scopes |-> toLowerCase(scopes[i])])

\* registerCallback(expectedState, scope, resolve, reject) on the registries
\* of window; the dispatch callback created for a state keeps the scope of
\* the call that created it.
registerCallback(w, expectedState, scope, c) ==
    [w EXCEPT !.activeRenewals[scope] = expectedState,
              !.callBacksMappedToRenewStates[expectedState] = Append(@, c),
              !.callBackMappedToRenewStates[expectedState] =
                  IF @ = Null THEN scope ELSE @]

\* The dispatch callback settling its first continuation only.
tokenReceivedCallback_firstOnly(w, ps, st, errorDesc, token, error) ==
    LET scope == w.callBackMappedToRenewStates[st]
        first == w.callBacksMappedToRenewStates[st][1]
    IN  [window |->
             [w EXCEPT !.activeRenewals[scope] = NoState,
                       !.callBacksMappedToRenewStates[st] = <<>>,
                       !.callBackMappedToRenewStates[st] = Null],
         promises |->
             IF errorDesc # Null \/ error # Null
             THEN reject(ps, first, errorDesc \o "|" \o error)
             ELSE IF token # Null THEN resolve(ps, first, token) ELSE ps]

\* The dispatch callback leaving the activeRenewals entry of its scope.
tokenReceivedCallback_keepsActive(w, ps, st, errorDesc, token, error) ==
    LET waiters == Range(w.callBacksMappedToRenewStates[st])
    IN  [window |->
             [w EXCEPT !.callBacksMappedToRenewStates[st] = <<>>,
                       !.callBackMappedToRenewStates[st] = Null],
         promises |->
             [c \in DOMAIN ps |->
                 IF c \notin waiters \/ ps[c].status # "pending" THEN ps[c]
                 ELSE IF errorDesc # Null \/ error # Null
                 THEN [ps[c] EXCEPT !.status = "rejected",
                                    !.value = errorDesc \o "|" \o error]
                 ELSE IF token # Null
                 THEN [ps[c] EXCEPT !.status = "resolved", !.value = token]
                 ELSE ps[c]]]

\* The dispatch callback registerCallback creates for a state, called with
\* (errorDesc, token, error): the registries and the promises afterwards.
tokenReceivedCallback(w, ps, st, errorDesc, token, error) ==
    LET scope == w.callBackMappedToRenewStates[st]
        waiters == Range(w.callBacksMappedToRenewStates[st])
    IN  [window |->
             [w EXCEPT !.activeRenewals[scope] = NoState,
                       !.callBacksMappedToRenewStates[st] = <<>>,
                       !.callBackMappedToRenewStates[st] = Null],
         promises |->
             [c \in DOMAIN ps |->
                 IF c \notin waiters \/ ps[c].status # "pending" THEN ps[c]
                 ELSE IF errorDesc # Null \/ error # Null
                 THEN [ps[c] EXCEPT !.status = "rejected",
                                    !.value = errorDesc \o "|" \o error]
                 ELSE IF token # Null
                 THEN [ps[c] EXCEPT !.status = "resolved", !.value = token]
                 ELSE ps[c]]]

\* What a run of the dispatch callback of a state was given and whom it
\* served.
Dispatched(w, st, errorDesc, token, error, by) ==
    [state |-> st, waiters |-> w.callBacksMappedToRenewStates[st],
     errorDesc |-> errorDesc, token |-> token, error |-> error, by |-> by]

\* addAdalFrame: the frame of that id, created blank when the document has
\* none.
addAdalFrame(fr, frameName) ==
    IF fr[frameName] = NoFrame THEN [fr EXCEPT ![frameName] = Blank] ELSE fr

\* loadIframeTimeout(urlNavigate, frameName, scope): the renewal status set
\* to in progress, and the timers of loadFrame (500 ms) and of the load
\* timeout (loadFrameTimeout) armed.
loadIframeTimeout(w, sto, tm, urlState, frameName, scope) ==
    LET expectedState == w.activeRenewals[scope]
    IN  [storage |-> [sto EXCEPT !.renewStatus[expectedState] =
                                     tokenRenewStatusInProgress],
         timers |-> tm \cup {[kind |-> "loadFrame", frame |-> frameName,
                              state |-> urlState],
                             [kind |-> "loadFrameTimeout", frame |-> frameName,
                              state |-> expectedState]}]

\* renewToken and renewIdToken: the request of promise c issued with a new
\* state st; renewToken registers under the lower-cased scope and uses the
\* frame of that scope, renewIdToken registers under the client id and uses
\* the id-token frame.
renewToken(c, st, responseType) ==
    LET scope == scopeKey(promises[c].scopes)
        frameName == "msalRenewFrame" \o scope
        sto == [storage EXCEPT !.acquireTokenUser[st] =
                                   IF requests'[st].account # Null
                                   THEN requests'[st].account ELSE no_account,
                               !.authority[st] = promises[c].authority,
                               !.nonceIdToken = st]
        w == registerCallback(
                 [window EXCEPT !.renewStates = Append(@, st),
                                !.requestType = RENEW_TOKEN],
                 st, scope, c)
        l == loadIframeTimeout(w, sto, timers, st, frameName, scope)
    IN  /\ window' = w
        /\ storage' = l.storage
        /\ timers' = l.timers
        /\ frames' = [addAdalFrame(frames, frameName) EXCEPT ![frameName] = Blank]
        /\ server' = {r \in server : r.frame # frameName}
        /\ UNCHANGED msal

renewIdToken(c, st, responseType) ==
    LET frameName == "msalIdTokenFrame"
        sto == [storage EXCEPT !.acquireTokenUser[st] =
                                   IF requests'[st].account # Null
                                   THEN requests'[st].account ELSE no_account,
                               !.authority[st] = promises[c].authority,
                               !.nonceIdToken = st]
        w == registerCallback(
                 IF msal.pSilentLogin
                 THEN [window EXCEPT !.requestType = LOGIN]
                 ELSE [window EXCEPT !.requestType = RENEW_TOKEN,
                                     !.renewStates = Append(@, st)],
                 st, clientId, c)
        l == loadIframeTimeout(w, sto, timers, st, frameName, clientId)
    IN  /\ window' = w
        /\ storage' = l.storage
        /\ timers' = l.timers
        /\ frames' = [addAdalFrame(frames, frameName) EXCEPT ![frameName] = Blank]
        /\ server' = {r \in server : r.frame # frameName}
        /\ msal' = IF msal.pSilentLogin
                   THEN [msal EXCEPT !.pSilentAuthenticationState = st]
                   ELSE msal

\* The response type acquireTokenSilent asks for (the account of the call is
\* the signed-in account).
silentResponseType(scopes) ==
    IF clientId \in Range(scopes) THEN "id_token" ELSE "token"

\* acquireTokenSilent(scopes) up to the call of ResolveEndpointsAsync.
AcquireTokenSilent(scopesIn) ==
    LET c == Len(promises) + 1
        isValidScope == validateInputScope(scopesIn)
        scopes == filterScopes(scopesIn)
        scope == scopeKey(scopes)
        accountObject == getAccount(msal, storage)
        p == [NewPromise("acquireTokenSilent", scopes, scope)
                 EXCEPT !.account = accountObject,
                        !.cancelled = {st \in StateIds :
                                          storage.renewStatus[st]
                                              = tokenRenewStatusCancelled}]
        cacheResult == getCachedToken(cache, clientId,
                                      [scopes |-> scopes, authority |-> Null],
                                      accountObject, now, tokenRenewalOffsetSeconds)
    IN  /\ CallsOf("acquireTokenSilent") < MaxSilent
        /\ IF resolveTokenOnlyIfOutOfIframe(window)
           THEN \* a promise nothing settles
                /\ promises' = Append(promises,
                      NewPromise("acquireTokenSilent", scopesIn, ""))
                /\ UNCHANGED cache
           ELSE IF isValidScope # ""
           THEN /\ promises' = Append(promises,
                      [p EXCEPT !.status = "rejected",
                                !.value = "input_scopes_error|" \o isValidScope])
                /\ UNCHANGED cache
           ELSE IF accountObject = Null
           THEN /\ promises' = Append(promises,
                      [p EXCEPT !.status = "rejected",
                                !.value = "user_login_error|User login is required"])
                /\ UNCHANGED cache
           ELSE /\ cache' = cacheResult.store
                /\ promises' = Append(promises,
                      CASE cacheDecision(cacheResult.result) = "resolve" ->
                             [p EXCEPT !.status = "resolved",
                                       !.value = cacheResult.result.token]
                        [] cacheDecision(cacheResult.result) = "reject" ->
                             [p EXCEPT !.status = "rejected",
                                       !.value = cacheResult.result.errorDesc \o "|"
                                                 \o cacheResult.result.error]
                        [] OTHER ->
                             [p EXCEPT !.resolving = TRUE,
                                       !.authority =
                                           IF cacheResult.authorityInstance # Null
                                           THEN cacheResult.authorityInstance
                                           ELSE DefaultAuthority])
        /\ msal' = IF resolveTokenOnlyIfOutOfIframe(window) \/ isValidScope # ""
                   THEN msal
                   ELSE [msal EXCEPT !.pAccount = accountObject]
        /\ UNCHANGED lastResponse
        /\ UNCHANGED <<clientId, tokenRenewalOffsetSeconds, now, lastLookup,
                       window, storage, frames, timers, requests, server,
                       navigations, lastDispatch>>

\* The continuation of acquireTokenSilent once the endpoints are resolved:
\* join the renewal in flight for the scope, or start one.
ResolveEndpointsThen(c) ==
    LET scopes == promises[c].scopes
        scope == promises[c].scope
        st == Len(requests) + 1
        responseType == silentResponseType(scopes)
    IN  /\ c \in DOMAIN promises
        /\ promises[c].api = "acquireTokenSilent"
        /\ promises[c].resolving
        /\ promises' = [promises EXCEPT
                            ![c].resolving = FALSE,
                            ![c].state = IF window.activeRenewals[scope] # NoState
                                         THEN window.activeRenewals[scope] ELSE st]
        /\ IF window.activeRenewals[scope] # NoState
           THEN /\ window' = registerCallback(window, window.activeRenewals[scope],
                                              scope, c)
                /\ UNCHANGED <<msal, storage, frames, timers, requests, server>>
           ELSE /\ Len(requests) < MaxRequests
                /\ requests' = Append(requests,
                      [state |-> st, nonce |-> st, api |-> "acquireTokenSilent",
                       responseType |-> responseType, scopes |-> scopes, account |-> promises[c].account,
                       authority |-> promises[c].authority])
                /\ IF clientId \in Range(scopes) /\ Len(scopes) = 1
                   THEN renewIdToken(c, st, responseType)
                   ELSE renewToken(c, st, responseType)
        /\ UNCHANGED lastResponse
        /\ UNCHANGED <<clientId, tokenRenewalOffsetSeconds, now, cache, lastLookup,
                       navigations, lastDispatch>>

\* ResolveEndpointsAsync fails: the catch handler rejects the call.
ResolveEndpointsCatch(c) ==
    /\ c \in DOMAIN promises
    /\ promises[c].api = "acquireTokenSilent"
    /\ promises[c].resolving
    /\ promises' = reject([promises EXCEPT ![c].resolving = FALSE], c,
                          "endpoints_resolution_error")
    /\ UNCHANGED lastResponse
    /\ UNCHANGED <<clientId, tokenRenewalOffsetSeconds, now, cache, lastLookup,
                   msal, window, storage, frames, timers, requests, server,
                   navigations, lastDispatch>>

\* The timer of loadFrame: the frame is navigated when its src is blank.
\* Timers of the same delay fire in the order they were armed.
LoadFrame(t) ==
    LET fr == addAdalFrame(frames, t.frame)
    IN  /\ t \in timers
        /\ t.kind = "loadFrame"
        /\ \A u \in timers : u.kind = "loadFrame" => u.state >= t.state
        /\ timers' = timers \ {t}
        /\ IF fr[t.frame] = Blank
           THEN /\ frames' = [fr EXCEPT ![t.frame] = t.state]
                /\ navigations' = Append(navigations, t.state)
                /\ server' = server \cup {[state |-> t.state, frame |-> t.frame]}
           ELSE /\ frames' = fr
                /\ UNCHANGED <<navigations, server>>
        /\ UNCHANGED lastResponse
        /\ UNCHANGED <<clientId, tokenRenewalOffsetSeconds, now, cache, lastLookup,
                       msal, window, storage, requests, promises, lastDispatch>>

\* The timer of loadIframeTimeout: a renewal still in progress is failed
\* through its dispatch callback and marked cancelled.  It fires after the
\* loadFrame timers armed before it.
LoadFrameTimeout(t) ==
    LET expectedState == t.state
        inProgress == storage.renewStatus[expectedState] = tokenRenewStatusInProgress
        registered == window.callBackMappedToRenewStates[expectedState] # Null
        r == tokenReceivedCallback(window, promises, expectedState,
                 "Token renewal operation failed due to timeout", Null,
                 "Token Renewal Failed")
    IN  /\ t \in timers
        /\ t.kind = "loadFrameTimeout"
        /\ \A u \in timers : u.kind = "loadFrame" => u.state > t.state
        /\ \A u \in timers : u.kind = "loadFrameTimeout" => u.state >= t.state
        /\ timers' = timers \ {t}
        /\ IF inProgress
           THEN /\ storage' = [storage EXCEPT !.renewStatus[expectedState] =
                                                  tokenRenewStatusCancelled]
                /\ IF registered
                   THEN /\ window' = r.window
                        /\ promises' = r.promises
                        /\ lastDispatch' = Dispatched(window, expectedState,
                               "Token renewal operation failed due to timeout",
                               Null, "Token Renewal Failed", "timeout")
                   ELSE UNCHANGED <<window, promises, lastDispatch>>
           ELSE UNCHANGED <<storage, window, promises, lastDispatch>>
        /\ UNCHANGED lastResponse
        /\ UNCHANGED <<clientId, tokenRenewalOffsetSeconds, now, cache, lastLookup,
                       msal, frames, requests, server, navigations>>

(***************************************************************************)
(* The response correlator: getRequestInfo, saveAccessToken,               *)
(* saveTokenFromHash and handleAuthenticationResponse.                     *)
(***************************************************************************)
\* The lifetime the STS gives a token (expires_in, in seconds).
ExpiresInSeconds == 3600

\* The tokens the STS issues for the request of a state.
AccessTokenOf(st) == "access_token:" \o ToString(st)

IdTokenOf(st) == "id_token:" \o ToString(st)

\* The parameters of the hash the STS answers the request of a state with:
\* the tokens of the response type asked for, echoing the state and the
\* nonce of the request, or an error.
ResponseKinds == {"success", "error"}

\* Responses the STS does not send: tokens under a state no request was
\* issued with, an id token with a nonce no request was issued with, and an
\* id token without a nonce claim.
ForgedKinds == {"unknown_state", "wrong_nonce", "no_nonce"}

ResponseParameters(st, kind) ==
    LET rq == requests[st]
        \* a request that names no scope is answered with an error
        refused == kind = "error" \/ rq.scopes = <<>>
        tokens == ~refused
        hasAccessToken == tokens /\ rq.responseType \in {"token", "id_token token"}
        hasIdToken == tokens /\ rq.responseType \in {"id_token", "id_token token"}
    IN  [state |-> IF kind = "unknown_state" THEN ForeignState ELSE st,
         error |-> IF refused THEN "interaction_required" ELSE Null,
         error_description |-> IF refused THEN "AADSTS50058" ELSE Null,
         access_token |-> IF hasAccessToken THEN AccessTokenOf(st) ELSE Null,
         scope |-> IF hasAccessToken THEN rq.scopes ELSE <<>>,
         expires_in |-> IF hasAccessToken THEN ExpiresInSeconds ELSE 0,
         id_token |-> IF hasIdToken THEN IdTokenOf(st) ELSE Null,
         nonce |-> IF ~hasIdToken \/ kind = "no_nonce" THEN NoState
                   ELSE IF kind = "wrong_nonce" THEN ForeignState ELSE rq.nonce,
         client_info |-> IF tokens
                         THEN (IF rq.account # Null THEN rq.account ELSE "u1")
                         ELSE Null]

\* getRequestInfo(hash): the response classified by its state.
getRequestInfo(m, w, sto, parameters) ==
    LET stateResponse == parameters.state
    IN  IF stateResponse = getItem(m, sto, "stateLogin")
           \/ stateResponse = m.pSilentAuthenticationState
        THEN [parameters |-> parameters, stateResponse |-> stateResponse,
              requestType |-> LOGIN, stateMatch |-> TRUE]
        ELSE IF stateResponse = getItem(m, sto, "stateAcquireToken")
        THEN [parameters |-> parameters, stateResponse |-> stateResponse,
              requestType |-> RENEW_TOKEN, stateMatch |-> TRUE]
        ELSE [parameters |-> parameters, stateResponse |-> stateResponse,
              requestType |-> w.requestType,
              stateMatch |-> stateResponse \in Range(w.renewStates)]

\* Utils.isIntersectingScopes, in lower case.
isIntersectingScopes(cachedScopes, scopes) ==
    \E i \in DOMAIN scopes :
        toLowerCase(scopes[i]) \in {toLowerCase(c) : c \in Range(cachedScopes)}

\* The home account identifier of Account.createAccount(idToken, clientInfo):
\* built from the client info, empty without one.
homeAccountIdentifier(clientInfo) == IF clientInfo = Null THEN "" ELSE clientInfo

\* Account.createAccount(idToken, clientInfo): the account identifier from
\* the id token, the home account identifier from the client info.
createAccount(idToken, clientInfo) ==
    [accountIdentifier |-> idToken,
     homeAccountIdentifier |-> homeAccountIdentifier(clientInfo)]

\* getUniqueAccounts: one account of each home account identifier (the
\* identifier always holds the "." between its two parts, so none is empty).
getUniqueAccounts(accounts) ==
    {a \in accounts :
        a = CHOOSE b \in accounts : b.homeAccountIdentifier = a.homeAccountIdentifier}

\* getAllAccounts(): the accounts made from the id token and the client info
\* of the value of every access-token entry.
getAllAccounts(store) ==
    getUniqueAccounts({createAccount(store[k].idToken, store[k].clientInfo) :
                          k \in DOMAIN store})

\* saveAccessToken without its scope branch: the token is always stored under
\* the client id as the key scope, as for a response without a scope.
saveAccessToken_ignoresScope(store, authority, parameters, account, clientInfo) ==
    LET key == [authority |-> authority, clientId |-> clientId,
                scopes |-> <<clientId>>,
                userIdentifier |-> homeAccountIdentifier(clientInfo)]
        value == [accessToken |-> IF parameters.access_token # Null
                                  THEN parameters.access_token
                                  ELSE parameters.id_token,
                  expiresIn |-> now + ExpiresInSeconds,
                  idToken |-> parameters.id_token, clientInfo |-> clientInfo]
    IN  [k \in DOMAIN store \cup {key} |-> IF k = key THEN value ELSE store[k]]

\* saveAccessToken storing its values without the client info.
saveAccessToken_noClientInfo(store, authority, parameters, account, clientInfo) ==
    LET key == [authority |-> authority, clientId |-> clientId,
                scopes |-> IF parameters.scope # <<>> THEN parameters.scope
                           ELSE <<clientId>>,
                userIdentifier |-> homeAccountIdentifier(clientInfo)]
        value == [accessToken |-> IF parameters.access_token # Null
                                  THEN parameters.access_token
                                  ELSE parameters.id_token,
                  expiresIn |-> now + ExpiresInSeconds,
                  idToken |-> parameters.id_token, clientInfo |-> Null]
    IN  [k \in DOMAIN store \cup {key} |-> IF k = key THEN value ELSE store[k]]

\* saveAccessToken(authority, tokenResponse, account, clientInfo, idToken):
\* the token cache afterwards.  The value is the AccessTokenValue of the
\* token, the raw id token (Null: the persisted one), the expiry and the
\* client info.
saveAccessToken(store, authority, parameters, account, clientInfo) ==
    IF parameters.scope # <<>>
    THEN LET evicted == {k \in DOMAIN store :
                            /\ k.clientId = clientId
                            /\ k.authority = authority
                            /\ k.userIdentifier = account
                            /\ isIntersectingScopes(k.scopes, parameters.scope)}
             key == [authority |-> authority, clientId |-> clientId,
                     scopes |-> parameters.scope,
                     userIdentifier |-> homeAccountIdentifier(clientInfo)]
             value == [accessToken |-> parameters.access_token,
                       expiresIn |-> now + parameters.expires_in,
                       idToken |-> parameters.id_token, clientInfo |-> clientInfo]
         IN  [k \in (DOMAIN store \ evicted) \cup {key} |->
                 IF k = key THEN value ELSE store[k]]
    ELSE LET key == [authority |-> authority, clientId |-> clientId,
                     scopes |-> <<clientId>>,
                     userIdentifier |-> homeAccountIdentifier(clientInfo)]
             value == [accessToken |-> parameters.id_token,
                       expiresIn |-> now + ExpiresInSeconds,
                       idToken |-> parameters.id_token, clientInfo |-> clientInfo]
         IN  [k \in DOMAIN store \cup {key} |->
                 IF k = key THEN value ELSE store[k]]


\* Storage.removeAcquireTokenEntries(authorityKey, acquireTokenUserKey): every
\* entry whose key contains one of the two non-empty keys is removed.  A key
\* is [prefix, user, state]; the bare state, used as a key, has no prefix and
\* is contained in the key of every entry written for that state.
NoKey == [prefix |-> "", user |-> "", state |-> NoState]

\* The end of saveTokenFromHash under storeAuthStateInCookie: the cookie of
\* authorityKey is expired and clearCookie() is called.
expireCookies(m, sto, authorityKey) ==
    IF ~m.storeAuthStateInCookie THEN sto
    ELSE clearCookie(
             IF authorityKey # NoKey /\ authorityKey.prefix = "authority"
             THEN [sto EXCEPT !.cookie.authority[authorityKey.state] = Null]
             ELSE sto)

removeAcquireTokenEntries(sto, authorityKey, acquireTokenUserKey) ==
    LET keys == {authorityKey, acquireTokenUserKey} \ {NoKey}
        bare(st) == \E k \in keys : k.prefix = "state" /\ k.state = st
        authorityHit(st) ==
            bare(st) \/ \E k \in keys : k.prefix = "authority" /\ k.state = st
        userHit(st) ==
            bare(st) \/ \E k \in keys : /\ k.prefix = "acquireTokenUser"
                                        /\ k.state = st
                                        /\ k.user = sto.acquireTokenUser[st]
    IN  [sto EXCEPT
            !.authority = [st \in AllStates |-> IF authorityHit(st) THEN Null ELSE @[st]],
            !.acquireTokenUser = [st \in AllStates |-> IF userHit(st) THEN Null ELSE @[st]],
            !.renewStatus = [st \in AllStates |-> IF bare(st) THEN Null ELSE @[st]]]

\* saveTokenFromHash(tokenResponse): the instance, the storage and the
\* token cache afterwards, and the parameters with the error it may add.
saveTokenFromHash(m, sto, store, tokenResponse) ==
    LET P == tokenResponse.parameters
        st == tokenResponse.stateResponse
        requestType == tokenResponse.requestType
        authority == getAuthorityItem(m, sto, st)
        hid == homeAccountIdentifier(P.client_info)
        authorityOfState == [prefix |-> "authority", user |-> "", state |-> st]
        userOfState(u) == [prefix |-> "acquireTokenUser", user |-> u, state |-> st]
        bareState == [prefix |-> "state", user |-> "", state |-> st]
        finish(m2, sto2, store2, P2, authorityKey, acquireTokenUserKey) ==
            [msal |-> m2,
             storage |-> expireCookies(m2,
                             removeAcquireTokenEntries(
                                 [sto2 EXCEPT !.renewStatus[st] = tokenRenewStatusCompleted],
                                 authorityKey, acquireTokenUserKey),
                             authorityKey),
             cache |-> store2,
             parameters |-> P2]
    IN  IF P.error_description # Null \/ P.error # Null
        THEN \* Record error
             LET m1 == IF requestType = LOGIN
                       THEN [m EXCEPT !.pLoginInProgress = FALSE]
                       ELSE IF requestType = RENEW_TOKEN
                       THEN [m EXCEPT !.pAcquireTokenInProgress = FALSE,
                                      !.pAccount = getAccount(m, sto)]
                       ELSE m
                 userKey == IF getAccount(m, sto) # Null THEN getAccount(m, sto) ELSE ""
             IN  finish(m1, sto, store, P,
                        IF requestType \in {LOGIN, RENEW_TOKEN}
                        THEN authorityOfState ELSE NoKey,
                        IF requestType = RENEW_TOKEN THEN userOfState(userKey) ELSE NoKey)
        ELSE IF tokenResponse.stateMatch
        THEN LET hasAccessToken == P.access_token # Null
                 hasIdToken == P.id_token # Null
                 \* the access token of the fragment
                 m1 == IF hasAccessToken
                       THEN [m EXCEPT !.pAcquireTokenInProgress = FALSE] ELSE m
                 sameUser == sto.acquireTokenUser[st] # Null
                             /\ sto.acquireTokenUser[st] = hid
                 noUser == sto.acquireTokenUser[st] = no_account
                 store1 == IF hasAccessToken /\ (sameUser \/ noUser)
                           THEN saveAccessToken(store, authority, P, hid, P.client_info)
                           ELSE store
                 key1 == IF hasAccessToken THEN authorityOfState ELSE NoKey
                 userKey1 == IF hasAccessToken THEN userOfState(hid) ELSE NoKey
                 \* the id token of the fragment
                 nonceOk == P.nonce = getItem(m, sto, "nonceIdToken")
             IN  IF ~hasIdToken
                 THEN finish(m1, sto, store1, P, key1, userKey1)
                 ELSE IF P.nonce # NoState
                 THEN IF nonceOk
                      THEN finish([m1 EXCEPT !.pLoginInProgress = FALSE,
                                             !.pAccount = hid],
                                  [sto EXCEPT !.idToken = hid],
                                  saveAccessToken(store1, authority, P, hid,
                                                  P.client_info),
                                  P, authorityOfState, userKey1)
                      ELSE finish([m1 EXCEPT !.pLoginInProgress = FALSE,
                                             !.pAccount = Null],
                                  sto, store1, P, authorityOfState, userKey1)
                 ELSE finish([m1 EXCEPT !.pLoginInProgress = FALSE,
                                        !.pAccount = hid],
                             sto, store1,
                             [P EXCEPT !.error = "invalid idToken",
                                       !.error_description = "Invalid idToken"],
                             bareState, bareState)
        ELSE finish(m, sto, store,
                    [P EXCEPT !.error = "Invalid_state",
                              !.error_description = "Invalid_state"],
                    bareState, bareState)

\* handleAuthenticationResponse(hash) run by the page loaded in a hidden
\* iframe or in a popup: the response is classified and saved, and the
\* dispatch callback registered for its state, if any, is called.
handleAuthenticationResponse(parameters, isPopup) ==
    LET requestInfo == getRequestInfo(msal, window, storage, parameters)
        st == requestInfo.stateResponse
        registered == window.callBackMappedToRenewStates[st] # Null
        saved == saveTokenFromHash(msal, storage, cache, requestInfo)
        token == IF requestInfo.requestType = RENEW_TOKEN
                 THEN (IF parameters.access_token # Null
                       THEN parameters.access_token ELSE parameters.id_token)
                 ELSE IF requestInfo.requestType = LOGIN
                 THEN parameters.id_token
                 ELSE Null
        errorDesc == saved.parameters.error_description
        error == saved.parameters.error
        called == tokenReceivedCallback(window, promises, st, errorDesc, token, error)
        w == IF registered THEN called.window ELSE window
    IN  /\ msal' = saved.msal
        /\ storage' = saved.storage
        /\ cache' = saved.cache
        /\ window' = IF isPopup
                     THEN [w EXCEPT !.openedWindows =
                              [i \in DOMAIN @ |-> [@[i] EXCEPT !.closed = TRUE]]]
                     ELSE w
        /\ promises' = IF registered THEN called.promises ELSE promises
        /\ lastDispatch' = IF registered
                           THEN Dispatched(window, st, errorDesc, token, error,
                                           "response")
                           ELSE lastDispatch

\* The record of the response of a request, delivered by the popup of a call
\* or by a hidden iframe, as the page is about to handle it.
Handled(parameters, request, call) ==
    LET requestInfo == getRequestInfo(msal, window, storage, parameters)
    IN  [handled |-> TRUE, parameters |-> parameters, request |-> request,
         call |-> call, requestType |-> requestInfo.requestType,
         stateMatch |-> requestInfo.stateMatch,
         registered |->
             window.callBackMappedToRenewStates[parameters.state] # Null,
         before |-> cache]

\* The STS answers a request made through a hidden iframe: the page loaded
\* in the frame handles the response.
IframeResponse(r, kind) ==
    /\ r \in server
    /\ r.frame \in FrameNames
    /\ server' = server \ {r}
    /\ handleAuthenticationResponse(ResponseParameters(r.state, kind), FALSE)
    /\ lastResponse' = Handled(ResponseParameters(r.state, kind), r.state, NoCall)
    /\ UNCHANGED <<clientId, tokenRenewalOffsetSeconds, now, lastLookup, frames,
                   timers, requests, navigations>>

(***************************************************************************)
(* Interactive login in a popup: loginPopup, loginPopupHelper, openWindow. *)
(***************************************************************************)
\* The scopes argument of loginPopup: none, or an array.
LoginScopes ==
    {[given |-> FALSE, scopes |-> <<>>], [given |-> TRUE, scopes |-> <<"s1">>]}

\* The browsing context of the popup opened for a promise.
popupName(c) == "popup" \o ToString(c)

\* A popup window as openWindow leaves it: at about:blank, polled.
NewPopup(c) ==
    [promise |-> c, closed |-> FALSE, polling |-> TRUE, href |-> Blank,
     returned |-> ""]

\* loginPopup(scopes) up to the call of ResolveEndpointsAsync in
\* loginPopupHelper; blocked tells whether window.open fails.
LoginPopup(opt, blocked) ==
    LET c == Len(promises) + 1
        scopes == IF opt.given THEN filterScopes(opt.scopes) ELSE <<clientId>>
        p == NewPromise("loginPopup", scopes, scopeKey(scopes))
    IN  /\ PageAlive
        /\ CallsOf("loginPopup") < MaxPopups
        /\ InteractiveCalls < MaxCalls
        /\ IF msal.pLoginInProgress
           THEN /\ promises' = Append(promises,
                      [p EXCEPT !.status = "rejected",
                                !.value = "login_progress_error|Login is in progress"])
                /\ UNCHANGED <<msal, window>>
           ELSE IF opt.given /\ validateInputScope(opt.scopes) # ""
           THEN /\ promises' = Append(promises,
                      [p EXCEPT !.status = "rejected",
                                !.value = "input_scopes_error|Invalid value for scopes"])
                /\ UNCHANGED <<msal, window>>
           ELSE IF blocked
           THEN \* openWindow: popupWindow == null
                /\ msal' = [msal EXCEPT !.pLoginInProgress = FALSE,
                                        !.pAcquireTokenInProgress = FALSE]
                /\ promises' = Append(promises,
                      [p EXCEPT !.status = "rejected",
                                !.value = "popup_window_error|Error opening popup window"])
                /\ UNCHANGED window
           ELSE /\ window' = [window EXCEPT !.openedWindows = Append(@, NewPopup(c))]
                /\ msal' = [msal EXCEPT !.pLoginInProgress = TRUE]
                /\ promises' = Append(promises,
                      [p EXCEPT !.resolving = TRUE, !.authority = DefaultAuthority])
        /\ UNCHANGED lastResponse
        /\ UNCHANGED <<clientId, tokenRenewalOffsetSeconds, now, cache, lastLookup,
                       storage, frames, timers, requests, server, navigations,
                       lastDispatch>>

\* loginPopupHelper once the endpoints are resolved: the login request is
\* issued, registered under the scope of the call, and the popup navigated.
LoginPopupThen(c) ==
    LET st == Len(requests) + 1
        scope == promises[c].scope
        i == CHOOSE j \in DOMAIN window.openedWindows :
                 window.openedWindows[j].promise = c
        w == registerCallback(
                 [window EXCEPT !.renewStates = Append(@, st),
                                !.requestType = LOGIN],
                 st, scope, c)
    IN  /\ PageAlive
        /\ c \in DOMAIN promises
        /\ promises[c].api = "loginPopup"
        /\ promises[c].resolving
        /\ Len(requests) < MaxRequests
        /\ promises' = [promises EXCEPT ![c].resolving = FALSE, ![c].state = st]
        /\ requests' = Append(requests,
              [state |-> st, nonce |-> st, api |-> "loginPopup",
               responseType |-> "id_token",
               scopes |-> promises[c].scopes, account |-> Null,
               authority |-> DefaultAuthority])
        /\ storage' = setItemCookie(msal,
                           [storage EXCEPT !.nonceIdToken = st,
                                           !.authority[st] = DefaultAuthority],
                           {"nonceIdToken"}, {st})
        /\ window' = [w EXCEPT !.openedWindows[i].href = st]
        /\ server' = IF window.openedWindows[i].closed THEN server
                     ELSE server \cup {[state |-> st, frame |-> popupName(c)]}
        /\ UNCHANGED lastResponse
        /\ UNCHANGED <<clientId, tokenRenewalOffsetSeconds, now, cache, lastLookup,
                       msal, frames, timers, navigations, lastDispatch>>

\* loginPopupHelper when the endpoints cannot be resolved: the call is
\* rejected and the popup closed.
LoginPopupCatch(c) ==
    LET i == CHOOSE j \in DOMAIN window.openedWindows :
                 window.openedWindows[j].promise = c
    IN  /\ PageAlive
        /\ c \in DOMAIN promises
        /\ promises[c].api = "loginPopup"
        /\ promises[c].resolving
        /\ promises' = reject([promises EXCEPT ![c].resolving = FALSE], c,
                  "endpoints_resolution_error:Error: could not resolve endpoints")
        /\ window' = [window EXCEPT !.openedWindows[i].closed = TRUE]
        /\ UNCHANGED lastResponse
        /\ UNCHANGED <<clientId, tokenRenewalOffsetSeconds, now, cache, lastLookup,
                       msal, storage, frames, timers, requests, server,
                       navigations, lastDispatch>>

\* The user closes a popup; a request under way in it is never answered.
ClosePopup(i) ==
    /\ PageAlive
    /\ i \in DOMAIN window.openedWindows
    /\ ~window.openedWindows[i].closed
    /\ window' = [window EXCEPT !.openedWindows[i].closed = TRUE]
    /\ server' = {r \in server :
                     r.frame # popupName(window.openedWindows[i].promise)}
    /\ UNCHANGED lastResponse
    /\ UNCHANGED <<clientId, tokenRenewalOffsetSeconds, now, cache, lastLookup,
                   msal, storage, frames, timers, requests, promises,
                   navigations, lastDispatch>>

\* The STS answers the request of a popup: the popup is sent back to the
\* redirect URI with the response in its hash.
PopupReturns(i, kind) ==
    LET r == [state |-> window.openedWindows[i].href,
              frame |-> popupName(window.openedWindows[i].promise)]
    IN  /\ PageAlive
        /\ i \in DOMAIN window.openedWindows
        /\ r \in server
        /\ server' = server \ {r}
        /\ window' = [window EXCEPT !.openedWindows[i].returned = kind]
        /\ UNCHANGED lastResponse
        /\ UNCHANGED <<clientId, tokenRenewalOffsetSeconds, now, cache, lastLookup,
                       msal, storage, frames, timers, requests, promises,
                       navigations, lastDispatch>>

\* The page loaded in the popup handles the response and closes the opened
\* windows.
PopupHandle(i) ==
    /\ PageAlive
    /\ i \in DOMAIN window.openedWindows
    /\ window.openedWindows[i].returned # ""
    /\ ~window.openedWindows[i].closed
    /\ handleAuthenticationResponse(
           ResponseParameters(window.openedWindows[i].href,
                              window.openedWindows[i].returned), TRUE)
    /\ lastResponse' = Handled(ResponseParameters(window.openedWindows[i].href,
                                                  window.openedWindows[i].returned),
                               window.openedWindows[i].href,
                               window.openedWindows[i].promise)
    /\ UNCHANGED <<clientId, tokenRenewalOffsetSeconds, now, lastLookup, frames,
                   timers, requests, server, navigations>>

\* A tick of the poll timer of openWindow that finds something: the popup
\* closed while a login is in progress, or the popup at the redirect URI.
PopupPoll(i) ==
    LET popupWindow == window.openedWindows[i]
        cancelled == popupWindow.closed /\ msal.pLoginInProgress
        atRedirectUri == ~popupWindow.closed /\ popupWindow.returned # ""
    IN  /\ PageAlive
        /\ i \in DOMAIN window.openedWindows
        /\ popupWindow.polling
        /\ cancelled \/ atRedirectUri
        /\ promises' = IF cancelled
                       THEN reject(promises, popupWindow.promise,
                                   "user_cancelled|User cancelled the flow")
                       ELSE promises
        /\ window' = [window EXCEPT !.openedWindows[i].polling = FALSE]
        /\ msal' = [msal EXCEPT !.pLoginInProgress = FALSE,
                                !.pAcquireTokenInProgress = FALSE]
        /\ UNCHANGED lastResponse
        /\ UNCHANGED <<clientId, tokenRenewalOffsetSeconds, now, cache, lastLookup,
                       storage, frames, timers, requests, server, navigations,
                       lastDispatch>>

(***************************************************************************)
(* The redirect entry points, acquireTokenPopup and logout.  A redirect   *)
(* entry point returns nothing: its call is kept in promises all the same, *)
(* rejected with the error pTokenReceivedCallback was called with, and     *)
(* pending as long as the callback has not been called for it.  The ADAL   *)
(* id token (extractADALIdToken) is absent from storage.                   *)
(***************************************************************************)
\* The scopes argument of loginPopup and loginRedirect in SpecInteractive.
LoginOptions ==
    LoginScopes \cup {[given |-> TRUE, scopes |-> sc] : sc \in InvalidScopes}

\* The scopes argument of acquireTokenPopup and acquireTokenRedirect.
InteractiveScopes == {<<"s1">>} \cup InvalidScopes

\* The account argument of acquireTokenPopup: not given (the current account
\* is used), or an account other than the one signed in.
AccountArgs == {Null, "u2"}

\* The URL a page navigates to: the authorization request of a state, or
\* the logout endpoint.
AuthorizeUrl(st) == "authorize:" \o ToString(st)

LogoutUrl == "logout"

\* loginRedirect(scopes) up to the call of ResolveEndpointsAsync in
\* loginRedirectHelper.
LoginRedirect(opt) ==
    LET c == Len(promises) + 1
        scopes == IF opt.given THEN filterScopes(opt.scopes) ELSE <<clientId>>
        p == NewPromise("loginRedirect", scopes, scopeKey(scopes))
    IN  /\ PageAlive
        /\ InteractiveCalls < MaxCalls
        /\ IF msal.pLoginInProgress /\ msal.pTokenReceivedCallback
           THEN /\ promises' = Append(promises,
                      [p EXCEPT !.status = "rejected",
                                !.value = "login_progress_error|Login is in progress"])
                /\ UNCHANGED msal
           ELSE IF /\ opt.given
                   /\ validateInputScope(opt.scopes) # ""
                   /\ msal.pTokenReceivedCallback
           THEN /\ promises' = Append(promises,
                      [p EXCEPT !.status = "rejected",
                                !.value = "input_scopes_error|Invalid value for scopes"])
                /\ UNCHANGED msal
           ELSE \* loginRedirectHelper
                /\ msal' = [msal EXCEPT !.pLoginInProgress = TRUE]
                /\ promises' = Append(promises,
                      [p EXCEPT !.resolving = TRUE, !.authority = DefaultAuthority])
        /\ UNCHANGED lastResponse
        /\ UNCHANGED <<clientId, tokenRenewalOffsetSeconds, now, cache, lastLookup,
                       window, storage, frames, timers, requests, server,
                       navigations, lastDispatch>>

\* loginRedirectHelper once the endpoints are resolved: the login state and
\* nonce are persisted and the page navigates to the STS.
LoginRedirectThen(c) ==
    LET st == Len(requests) + 1
    IN  /\ PageAlive
        /\ c \in DOMAIN promises
        /\ promises[c].api = "loginRedirect"
        /\ promises[c].resolving
        /\ Len(requests) < MaxRequests
        /\ promises' = [promises EXCEPT ![c].resolving = FALSE, ![c].state = st]
        /\ requests' = Append(requests,
              [state |-> st, nonce |-> st, api |-> "loginRedirect",
               responseType |-> "id_token",
               scopes |-> promises[c].scopes, account |-> Null,
               authority |-> DefaultAuthority])
        /\ storage' = setItemCookie(msal,
                           [storage EXCEPT !.stateLogin = st,
                                           !.nonceIdToken = st,
                                           !.authority[st] = DefaultAuthority],
                           {"stateLogin", "nonceIdToken"}, {st})
        /\ window' = [window EXCEPT !.location = AuthorizeUrl(st)]
        /\ UNCHANGED lastResponse
        /\ UNCHANGED <<clientId, tokenRenewalOffsetSeconds, now, cache, lastLookup,
                       msal, frames, timers, server, navigations, lastDispatch>>

\* ResolveEndpointsAsync fails in loginRedirectHelper: the promise chain has
\* no rejection handler, nothing runs.
LoginRedirectFail(c) ==
    /\ PageAlive
    /\ c \in DOMAIN promises
    /\ promises[c].api = "loginRedirect"
    /\ promises[c].resolving
    /\ promises' = [promises EXCEPT ![c].resolving = FALSE]
    /\ UNCHANGED lastResponse
    /\ UNCHANGED <<clientId, tokenRenewalOffsetSeconds, now, cache, lastLookup,
                   msal, window, storage, frames, timers, requests, server,
                   navigations, lastDispatch>>

\* The response type acquireTokenPopup and acquireTokenRedirect ask for,
\* for the account of the call and the current account.
interactiveResponseType(scopes, accountObject, current) ==
    IF accountObject = current
    THEN (IF clientId \in Range(scopes) THEN "id_token" ELSE "token")
    ELSE "id_token token"

\* The request-scoped entries acquireTokenPopup and acquireTokenRedirect
\* persist for a new state: nonce, account of the request, authority.
persistAcquireToken(sto, st, accountObject, authority) ==
    [sto EXCEPT !.nonceIdToken = st,
                !.acquireTokenUser[st] =
                    IF accountObject # Null THEN accountObject ELSE no_account,
                !.authority[st] = authority]

\* acquireTokenRedirect(scopes) up to the call of ResolveEndpointsAsync.
AcquireTokenRedirect(scopesIn) ==
    LET c == Len(promises) + 1
        isValidScope == validateInputScope(scopesIn)
        scopes == filterScopes(scopesIn)
        accountObject == getAccount(msal, storage)
        p == [NewPromise("acquireTokenRedirect", scopes, scopeKey(scopes))
                 EXCEPT !.account = accountObject]
    IN  /\ PageAlive
        /\ InteractiveCalls < MaxCalls
        /\ IF isValidScope # "" /\ msal.pTokenReceivedCallback
           THEN /\ promises' = Append(promises,
                      [p EXCEPT !.status = "rejected",
                                !.value = "input_scopes_error|Invalid value for scopes"])
                /\ UNCHANGED msal
           ELSE IF msal.pAcquireTokenInProgress
           THEN /\ promises' = Append(promises, p)
                /\ msal' = [msal EXCEPT !.pAccount = accountObject]
           ELSE IF accountObject = Null /\ msal.pTokenReceivedCallback
           THEN /\ promises' = Append(promises,
                      [p EXCEPT !.status = "rejected",
                                !.value = "user_login_error|User login is required"])
                /\ msal' = [msal EXCEPT !.pAccount = accountObject]
           ELSE /\ msal' = [msal EXCEPT !.pAccount = accountObject,
                                        !.pAcquireTokenInProgress = TRUE]
                /\ promises' = Append(promises,
                      [p EXCEPT !.resolving = TRUE, !.authority = DefaultAuthority])
        /\ UNCHANGED lastResponse
        /\ UNCHANGED <<clientId, tokenRenewalOffsetSeconds, now, cache, lastLookup,
                       window, storage, frames, timers, requests, server,
                       navigations, lastDispatch>>

\* acquireTokenRedirect once the endpoints are resolved: the request is
\* persisted with its state and the page navigates to the STS.
AcquireTokenRedirectThen(c) ==
    LET st == Len(requests) + 1
        accountObject == promises[c].account
        current == getAccount(msal, storage)
    IN  /\ PageAlive
        /\ c \in DOMAIN promises
        /\ promises[c].api = "acquireTokenRedirect"
        /\ promises[c].resolving
        /\ Len(requests) < MaxRequests
        /\ promises' = [promises EXCEPT ![c].resolving = FALSE, ![c].state = st]
        /\ requests' = Append(requests,
              [state |-> st, nonce |-> st, api |-> "acquireTokenRedirect",
               responseType |->
                   interactiveResponseType(promises[c].scopes, accountObject, current),
               scopes |-> promises[c].scopes, account |-> accountObject,
               authority |-> promises[c].authority])
        /\ storage' = setItemCookie(msal,
                           [persistAcquireToken(storage, st, accountObject,
                                                promises[c].authority)
                               EXCEPT !.stateAcquireToken = st],
                           {"stateAcquireToken", "nonceIdToken"}, {st})
        /\ msal' = [msal EXCEPT !.pAccount = current]
        /\ window' = [window EXCEPT !.location = AuthorizeUrl(st)]
        /\ UNCHANGED lastResponse
        /\ UNCHANGED <<clientId, tokenRenewalOffsetSeconds, now, cache, lastLookup,
                       frames, timers, server, navigations, lastDispatch>>

\* ResolveEndpointsAsync fails in acquireTokenRedirect: the promise chain
\* has no rejection handler, nothing runs.
AcquireTokenRedirectFail(c) ==
    /\ PageAlive
    /\ c \in DOMAIN promises
    /\ promises[c].api = "acquireTokenRedirect"
    /\ promises[c].resolving
    /\ promises' = [promises EXCEPT ![c].resolving = FALSE]
    /\ UNCHANGED lastResponse
    /\ UNCHANGED <<clientId, tokenRenewalOffsetSeconds, now, cache, lastLookup,
                   msal, window, storage, frames, timers, requests, server,
                   navigations, lastDispatch>>

\* acquireTokenPopup(scopes, authority, account) up to the call of
\* ResolveEndpointsAsync; account is Null when the argument is not given,
\* blocked tells whether window.open fails.  The rejection for invalid
\* scopes is not followed by a return.
AcquireTokenPopup(scopesIn, account, blocked) ==
    LET c == Len(promises) + 1
        isValidScope == validateInputScope(scopesIn)
        scopes == filterScopes(scopesIn)
        accountObject == IF account # Null THEN account ELSE getAccount(msal, storage)
        \* this.pAccount after `account ? account : this.getAccount()`
        pAccount == IF account # Null THEN msal.pAccount ELSE accountObject
        p0 == [NewPromise("acquireTokenPopup", scopes, scopeKey(scopes))
                  EXCEPT !.account = accountObject]
        p == IF isValidScope # ""
             THEN [p0 EXCEPT !.status = "rejected",
                             !.value = "input_scopes_error|" \o isValidScope]
             ELSE p0
        settle(q, err) == IF q.status = "pending"
                          THEN [q EXCEPT !.status = "rejected", !.value = err]
                          ELSE q
    IN  /\ PageAlive
        /\ InteractiveCalls < MaxCalls
        /\ IF msal.pAcquireTokenInProgress
           THEN /\ promises' = Append(promises,
                      settle(p, "acquiretoken_progress_error|Acquire token is in progress"))
                /\ msal' = [msal EXCEPT !.pAccount = pAccount]
                /\ UNCHANGED window
           ELSE IF accountObject = Null
           THEN /\ promises' = Append(promises,
                      settle(p, "user_login_error|User login is required"))
                /\ msal' = [msal EXCEPT !.pAccount = pAccount]
                /\ UNCHANGED window
           ELSE IF blocked
           THEN \* openWindow: popupWindow == null
                /\ msal' = [msal EXCEPT !.pAccount = pAccount,
                                        !.pLoginInProgress = FALSE,
                                        !.pAcquireTokenInProgress = FALSE]
                /\ promises' = Append(promises,
                      settle(p, "popup_window_error|Error opening popup window"))
                /\ UNCHANGED window
           ELSE /\ window' = [window EXCEPT !.openedWindows = Append(@, NewPopup(c))]
                /\ msal' = [msal EXCEPT !.pAccount = pAccount,
                                        !.pAcquireTokenInProgress = TRUE]
                /\ promises' = Append(promises,
                      [p EXCEPT !.resolving = TRUE, !.authority = DefaultAuthority])
        /\ UNCHANGED lastResponse
        /\ UNCHANGED <<clientId, tokenRenewalOffsetSeconds, now, cache, lastLookup,
                       storage, frames, timers, requests, server, navigations,
                       lastDispatch>>

\* acquireTokenPopup once the endpoints are resolved: the request is issued,
\* registered under the scope of the call, and the popup navigated.
AcquireTokenPopupThen(c) ==
    LET st == Len(requests) + 1
        scope == promises[c].scope
        accountObject == promises[c].account
        current == getAccount(msal, storage)
        i == CHOOSE j \in DOMAIN window.openedWindows :
                 window.openedWindows[j].promise = c
        w == registerCallback(
                 [window EXCEPT !.renewStates = Append(@, st),
                                !.requestType = RENEW_TOKEN],
                 st, scope, c)
    IN  /\ PageAlive
        /\ c \in DOMAIN promises
        /\ promises[c].api = "acquireTokenPopup"
        /\ promises[c].resolving
        /\ Len(requests) < MaxRequests
        /\ promises' = [promises EXCEPT ![c].resolving = FALSE, ![c].state = st]
        /\ requests' = Append(requests,
              [state |-> st, nonce |-> st, api |-> "acquireTokenPopup",
               responseType |->
                   interactiveResponseType(promises[c].scopes, accountObject, current),
               scopes |-> promises[c].scopes, account |-> accountObject,
               authority |-> promises[c].authority])
        /\ storage' = setItemCookie(msal,
                           persistAcquireToken(storage, st, accountObject,
                                               promises[c].authority),
                           {}, {st})
        /\ msal' = [msal EXCEPT !.pAccount = current]
        /\ window' = [w EXCEPT !.openedWindows[i].href = st]
        /\ server' = IF window.openedWindows[i].closed THEN server
                     ELSE server \cup {[state |-> st, frame |-> popupName(c)]}
        /\ UNCHANGED lastResponse
        /\ UNCHANGED <<clientId, tokenRenewalOffsetSeconds, now, cache, lastLookup,
                       frames, timers, navigations, lastDispatch>>

\* acquireTokenPopup when the endpoints cannot be resolved: the call is
\* rejected and the popup closed.
AcquireTokenPopupCatch(c) ==
    LET i == CHOOSE j \in DOMAIN window.openedWindows :
                 window.openedWindows[j].promise = c
    IN  /\ PageAlive
        /\ c \in DOMAIN promises
        /\ promises[c].api = "acquireTokenPopup"
        /\ promises[c].resolving
        /\ promises' = reject([promises EXCEPT ![c].resolving = FALSE], c,
                  "endpoints_resolution_error|Error: could not resolve endpoints")
        /\ window' = [window EXCEPT !.openedWindows[i].closed = TRUE]
        /\ UNCHANGED lastResponse
        /\ UNCHANGED <<clientId, tokenRenewalOffsetSeconds, now, cache, lastLookup,
                       msal, storage, frames, timers, requests, server,
                       navigations, lastDispatch>>

\* Storage.resetCacheItems: the entries the library keeps about the session
\* and its requests are emptied, the renewal statuses removed.
resetCacheItems(sto) ==
    [sto EXCEPT !.idToken = Null,
                !.nonceIdToken = NoState,
                !.stateLogin = NoState,
                !.stateAcquireToken = NoState,
                !.renewStatus = [st \in AllStates |-> Null],
                !.authority = [st \in AllStates |-> Null],
                !.acquireTokenUser = [st \in AllStates |-> Null],
                !.urlHash = Null]

\* Storage.getAllAccessTokens(Constants.clientId, Constants.userIdentifier):
\* the keys of all access-token entries.
allAccessTokens(store) == DOMAIN store

\* clearCache without the removal of the access-token entries.
clearCache_keepsTokens(w, sto, store) ==
    [window |-> [w EXCEPT !.renewStates = <<>>],
     cache |-> store,
     storage |-> clearCookie(resetCacheItems(sto))]

\* clearCache(): the issued renewal states forgotten, every access-token
\* entry removed, the session entries reset.
clearCache(w, sto, store) ==
    [window |-> [w EXCEPT !.renewStates = <<>>],
     cache |-> [k \in DOMAIN store \ allAccessTokens(store) |-> store[k]],
     storage |-> clearCookie(resetCacheItems(sto))]

\* logout(): the cache cleared, the current account forgotten, and the page
\* sent to the logout endpoint.
Logout ==
    LET cleared == clearCache(window, storage, cache)
    IN  /\ PageAlive
        /\ window' = [cleared.window EXCEPT !.location = LogoutUrl]
        /\ cache' = cleared.cache
        /\ storage' = cleared.storage
        /\ msal' = [msal EXCEPT !.pAccount = Null]
        /\ UNCHANGED lastResponse
        /\ UNCHANGED <<clientId, tokenRenewalOffsetSeconds, now, lastLookup,
                       frames, timers, requests, server, promises,
                       navigations, lastDispatch>>

(***************************************************************************)
(* SpecInteractive: the popup and redirect entry points and logout on a    *)
(* page, until the page navigates away.                                    *)
(***************************************************************************)
\* The token cache a page starts with: empty, or one entry of the account
\* that is signed in.
SignedInKey ==
    [authority |-> DefaultAuthority, clientId |-> "cid", scopes |-> <<"s1">>,
     userIdentifier |-> "u1"]

InitInteractive ==
    /\ clientId = "cid"
    /\ tokenRenewalOffsetSeconds = [isSet |-> FALSE, value |-> 0]
    /\ now = 0
    /\ lastLookup = NoLookup
    /\ InitEngine
    /\ msal.navigateToLoginRequestUrl
    /\ ~msal.storeAuthStateInCookie
    /\ ~isInIframe(window)
    /\ cache = IF storage.idToken = Null THEN <<>>
               ELSE [k \in {SignedInKey} |->
                        [accessToken |-> TokenOf(k), expiresIn |-> LongLived,
                         idToken |-> Null, clientInfo |-> k.userIdentifier]]

NextInteractive ==
    \/ \E opt \in LoginOptions, blocked \in BOOLEAN : LoginPopup(opt, blocked)
    \/ \E c \in DOMAIN promises : LoginPopupThen(c)
    \/ \E c \in DOMAIN promises : LoginPopupCatch(c)
    \/ \E opt \in LoginOptions : LoginRedirect(opt)
    \/ \E c \in DOMAIN promises : LoginRedirectThen(c)
    \/ \E c \in DOMAIN promises : LoginRedirectFail(c)
    \/ \E scopes \in InteractiveScopes, account \in AccountArgs,
            blocked \in BOOLEAN :
         AcquireTokenPopup(scopes, account, blocked)
    \/ \E c \in DOMAIN promises : AcquireTokenPopupThen(c)
    \/ \E c \in DOMAIN promises : AcquireTokenPopupCatch(c)
    \/ \E scopes \in InteractiveScopes : AcquireTokenRedirect(scopes)
    \/ \E c \in DOMAIN promises : AcquireTokenRedirectThen(c)
    \/ \E c \in DOMAIN promises : AcquireTokenRedirectFail(c)
    \/ \E i \in DOMAIN window.openedWindows : ClosePopup(i)
    \/ \E i \in DOMAIN window.openedWindows,
          kind \in ResponseKinds \cup ForgedKinds : PopupReturns(i, kind)
    \/ \E i \in DOMAIN window.openedWindows : PopupHandle(i)
    \/ \E i \in DOMAIN window.openedWindows : PopupPoll(i)
    \/ Logout

SpecInteractive == InitInteractive /\ [][NextInteractive]_vars

\* The popup entry points of an application configured with
\* storeAuthStateInCookie, which mirrors the authentication state to cookies.
InitCookie ==
    /\ clientId = "cid"
    /\ tokenRenewalOffsetSeconds = [isSet |-> FALSE, value |-> 0]
    /\ now = 0
    /\ lastLookup = NoLookup
    /\ InitEngine
    /\ msal.navigateToLoginRequestUrl
    /\ msal.storeAuthStateInCookie
    /\ ~isInIframe(window)
    /\ cache = <<>>

NextCookie ==
    \/ \E opt \in LoginOptions, blocked \in BOOLEAN : LoginPopup(opt, blocked)
    \/ \E c \in DOMAIN promises : LoginPopupThen(c)
    \/ \E c \in DOMAIN promises : LoginPopupCatch(c)
    \/ \E scopes \in InteractiveScopes, account \in AccountArgs,
            blocked \in BOOLEAN :
         AcquireTokenPopup(scopes, account, blocked)
    \/ \E c \in DOMAIN promises : AcquireTokenPopupThen(c)
    \/ \E c \in DOMAIN promises : AcquireTokenPopupCatch(c)
    \/ \E i \in DOMAIN window.openedWindows : ClosePopup(i)
    \/ \E i \in DOMAIN window.openedWindows,
          kind \in ResponseKinds \cup ForgedKinds : PopupReturns(i, kind)
    \/ \E i \in DOMAIN window.openedWindows : PopupHandle(i)
    \/ \E i \in DOMAIN window.openedWindows : PopupPoll(i)

SpecCookie == InitCookie /\ [][NextCookie]_vars

\* An instance running in a nested browsing context (window.parent differs
\* from window): the calls of acquireTokenSilent and of loginPopup.
InitNested ==
    /\ clientId \in ClientIds
    /\ tokenRenewalOffsetSeconds = [isSet |-> FALSE, value |-> 0]
    /\ now = 0
    /\ lastLookup = NoLookup
    /\ InitEngine
    /\ msal.navigateToLoginRequestUrl
    /\ ~msal.storeAuthStateInCookie
    /\ isInIframe(window)
    /\ cache = IF storage.idToken = Null THEN <<>>
               ELSE [k \in {[SignedInKey EXCEPT !.clientId = clientId]} |->
                        [accessToken |-> TokenOf(k), expiresIn |-> LongLived,
                         idToken |-> Null, clientInfo |-> k.userIdentifier]]

NextNested ==
    \/ \E scopes \in SilentScopes \cup InvalidScopes : AcquireTokenSilent(scopes)
    \/ \E opt \in LoginScopes, blocked \in BOOLEAN : LoginPopup(opt, blocked)
    \/ \E c \in Calls : LoginPopupThen(c)
    \/ \E c \in Calls : LoginPopupCatch(c)
    \/ \E i \in Calls : ClosePopup(i)
    \/ \E i \in Calls, kind \in ResponseKinds : PopupReturns(i, kind)
    \/ \E i \in Calls : PopupHandle(i)
    \/ \E i \in Calls : PopupPoll(i)

SpecNested == InitNested /\ [][NextNested]_vars

(***************************************************************************)
(* The return of a full-page redirect: the page at the redirect URI is     *)
(* loaded with the response in its hash, and the constructor of the new    *)
(* instance handles it.                                                    *)
(***************************************************************************)
\* self._navigateToLoginRequestUrl, the member handleAuthenticationResponse
\* tests: nothing assigns it (the option of the configuration is
\* pConfig.auth.navigateToLoginRequestUrl), so it is undefined.
navigateToLoginRequestUrlMember(m) == FALSE

\* The instance and the window of a page that has just been loaded: the
\* constructor up to the test of the hash.
constructed(m) ==
    [m EXCEPT !.pLoginInProgress = FALSE, !.pAcquireTokenInProgress = FALSE,
              !.pSilentLogin = FALSE, !.pSilentAuthenticationState = NoState,
              !.pAccount = Null]

loadedWindow(w) ==
    [activeRenewals |-> [k \in RenewalKeys |-> NoState],
     renewStates |-> <<>>,
     callBackMappedToRenewStates |-> [st \in AllStates |-> Null],
     callBacksMappedToRenewStates |-> [st \in AllStates |-> <<>>],
     requestType |-> Null,
     openedWindows |-> <<>>,
     location |-> AppPage,
     parent |-> w.parent]

\* loginInProgress(): a pending hash is stored, or a login is in progress.
loginInProgress(m, sto) == sto.urlHash # Null \/ m.pLoginInProgress

\* The token handleAuthenticationResponse passes to the callback.
tokenOf(requestType, parameters) ==
    IF requestType = RENEW_TOKEN
    THEN (IF parameters.access_token # Null
          THEN parameters.access_token ELSE parameters.id_token)
    ELSE IF requestType = LOGIN THEN parameters.id_token
    ELSE Null

\* processCallBack(hash): the pending hash saved and removed, and the
\* redirect callback called.
processCallBack(m, w, sto, store, hash) ==
    LET requestInfo == getRequestInfo(m, w, sto, hash)
        saved == saveTokenFromHash(m, sto, store, requestInfo)
        called == m.pTokenReceivedCallback
    IN  [msal |-> saved.msal,
         storage |-> IF called
                     THEN clearCookie([saved.storage EXCEPT !.urlHash = Null])
                     ELSE [saved.storage EXCEPT !.urlHash = Null],
         cache |-> saved.cache,
         called |-> called,
         dispatch |-> [state |-> hash.state, waiters |-> <<>>,
                       errorDesc |-> saved.parameters.error_description,
                       token |-> IF hash.access_token # Null
                                 THEN hash.access_token ELSE hash.id_token,
                       error |-> saved.parameters.error,
                       by |-> "processCallBack"]]

\* The STS redirects the browser back to the redirect URI with the response
\* of the request of the page in the hash; the page is loaded, and the
\* constructor finds the hash and calls handleAuthenticationResponse, here
\* in a top-level window that no msal window opened.
RedirectReturns(kind) ==
    \E st \in DOMAIN requests :
        LET P == ResponseParameters(st, kind)
            m0 == constructed(msal)
            w0 == loadedWindow(window)
            requestInfo == getRequestInfo(m0, w0, storage, P)
            saved == saveTokenFromHash(m0, storage, cache, requestInfo)
        IN  /\ window.location = AuthorizeUrl(st)
            /\ frames' = [f \in FrameNames |-> NoFrame]
            /\ timers' = {}
            /\ server' = {}
            /\ window' = w0
            /\ lastResponse' =
                   [handled |-> TRUE, parameters |-> P, request |-> st,
                    call |-> NoCall, requestType |-> requestInfo.requestType,
                    stateMatch |-> requestInfo.stateMatch,
                    registered |-> m0.pTokenReceivedCallback, before |-> cache]
            /\ IF navigateToLoginRequestUrlMember(m0)
               THEN \* the hash kept for the page of the login request
                    /\ msal' = m0
                    /\ storage' = [storage EXCEPT !.urlHash = P]
                    /\ UNCHANGED <<cache, lastDispatch>>
               ELSE /\ msal' = saved.msal
                    /\ storage' = saved.storage
                    /\ cache' = saved.cache
                    /\ lastDispatch' =
                           IF m0.pTokenReceivedCallback
                           THEN [state |-> st, waiters |-> <<>>,
                                 errorDesc |-> saved.parameters.error_description,
                                 token |-> tokenOf(requestInfo.requestType, P),
                                 error |-> saved.parameters.error,
                                 by |-> "redirect"]
                           ELSE lastDispatch
            /\ UNCHANGED <<clientId, tokenRenewalOffsetSeconds, now, lastLookup,
                           requests, promises, navigations>>

\* The page of the application is loaded again with no response in its
\* hash: the constructor processes the pending hash, if one is stored.
PageLoad ==
    LET m0 == constructed(msal)
        w0 == loadedWindow(window)
        pendingCallback == storage.urlHash
        r == processCallBack(m0, w0, storage, cache, pendingCallback)
    IN  /\ PageAlive
        /\ promises # <<>>
        /\ frames' = [f \in FrameNames |-> NoFrame]
        /\ timers' = {}
        /\ server' = {}
        /\ window' = w0
        /\ IF pendingCallback # Null
           THEN /\ msal' = r.msal
                /\ storage' = r.storage
                /\ cache' = r.cache
                /\ lastDispatch' = IF r.called THEN r.dispatch ELSE lastDispatch
                /\ lastResponse' =
                       [handled |-> TRUE, parameters |-> pendingCallback,
                        request |-> pendingCallback.state, call |-> NoCall,
                        requestType |->
                            getRequestInfo(m0, w0, storage, pendingCallback).requestType,
                        stateMatch |->
                            getRequestInfo(m0, w0, storage, pendingCallback).stateMatch,
                        registered |-> r.called, before |-> cache]
           ELSE /\ msal' = m0
                /\ UNCHANGED <<storage, cache, lastDispatch, lastResponse>>
        /\ UNCHANGED <<clientId, tokenRenewalOffsetSeconds, now, lastLookup,
                       requests, promises, navigations>>

\* The redirect entry points of a page, and the pages loaded afterwards.
InitRedirect ==
    /\ clientId = "cid"
    /\ tokenRenewalOffsetSeconds = [isSet |-> FALSE, value |-> 0]
    /\ now = 0
    /\ lastLookup = NoLookup
    /\ InitEngine
    /\ ~isInIframe(window)
    /\ cache = <<>>

NextRedirect ==
    \/ \E opt \in LoginOptions : LoginRedirect(opt)
    \/ \E c \in DOMAIN promises : LoginRedirectThen(c)
    \/ \E c \in DOMAIN promises : LoginRedirectFail(c)
    \/ \E scopes \in InteractiveScopes : AcquireTokenRedirect(scopes)
    \/ \E c \in DOMAIN promises : AcquireTokenRedirectThen(c)
    \/ \E c \in DOMAIN promises : AcquireTokenRedirectFail(c)
    \/ \E kind \in ResponseKinds \cup {"wrong_nonce", "no_nonce"} :
         RedirectReturns(kind)
    \/ PageLoad

SpecRedirect == InitRedirect /\ [][NextRedirect]_vars

\* The engine on a page: construction with an empty token cache.
Init ==
    /\ clientId \in ClientIds
    /\ tokenRenewalOffsetSeconds = [isSet |-> FALSE, value |-> 0]
    /\ now = 0
    /\ cache = <<>>
    /\ lastLookup = NoLookup
    /\ InitEngine
    /\ msal.navigateToLoginRequestUrl
    /\ ~msal.pTokenReceivedCallback
    /\ ~msal.storeAuthStateInCookie
    /\ ~isInIframe(window)

Next ==
    \/ \E scopes \in SilentScopes : AcquireTokenSilent(scopes)
    \/ \E c \in Calls : ResolveEndpointsThen(c)
    \/ \E c \in Calls : ResolveEndpointsCatch(c)
    \/ \E t \in timers : LoadFrame(t)
    \/ \E t \in timers : LoadFrameTimeout(t)
    \/ \E r \in server, kind \in ResponseKinds : IframeResponse(r, kind)
    \/ \E opt \in LoginScopes, blocked \in BOOLEAN : LoginPopup(opt, blocked)
    \/ \E c \in Calls : LoginPopupThen(c)
    \/ \E c \in Calls : LoginPopupCatch(c)
    \/ \E i \in Calls : ClosePopup(i)
    \/ \E i \in Calls, kind \in ResponseKinds : PopupReturns(i, kind)
    \/ \E i \in Calls : PopupHandle(i)
    \/ \E i \in Calls : PopupPoll(i)

Spec == Init /\ [][Next]_vars

(***************************************************************************)
(* SpecSilent: acquireTokenSilent and the silent renewal on a page that    *)
(* starts with tokens of the signed-in account in the cache.               *)
(***************************************************************************)
\* Scopes that hold nothing but the reserved scopes filterScopes removes.
ReservedOnlyScopes == {<<"openid">>, <<"profile", "openid">>}

InitSilent ==
    /\ clientId = "cid"
    /\ tokenRenewalOffsetSeconds = [isSet |-> FALSE, value |-> 0]
    /\ now = 0
    /\ \E keys \in SUBSET AccountKeys(clientId) :
         /\ Cardinality(keys) <= MaxEntries
         /\ cache = [k \in keys |->
                       [accessToken |-> TokenOf(k), expiresIn |-> LongLived,
                        idToken |-> Null, clientInfo |-> k.userIdentifier]]
    /\ lastLookup = NoLookup
    /\ InitEngine
    /\ msal.navigateToLoginRequestUrl
    /\ storage.idToken = "u1"
    /\ ~msal.pTokenReceivedCallback
    /\ ~msal.storeAuthStateInCookie
    /\ ~isInIframe(window)

NextSilent ==
    \/ \E scopes \in SilentScopes \cup InvalidScopes \cup ReservedOnlyScopes :
         AcquireTokenSilent(scopes)
    \/ \E c \in Calls : ResolveEndpointsThen(c)
    \/ \E c \in Calls : ResolveEndpointsCatch(c)
    \/ \E t \in timers : LoadFrame(t)
    \/ \E t \in timers : LoadFrameTimeout(t)
    \/ \E r \in server, kind \in ResponseKinds : IframeResponse(r, kind)

SpecSilent == InitSilent /\ [][NextSilent]_vars

(***************************************************************************)
(* Properties of the cache lookup (checked under SpecCache).               *)
(***************************************************************************)
\* The entries of the account the last lookup asked for, in the cache the
\* lookup started from.
AccountEntries ==
    {k \in DOMAIN lastLookup.before :
        k.clientId = clientId /\ k.userIdentifier = lastLookup.account}

\* Those of them whose scopes are a superset of the requested scopes.
ScopeMatches ==
    {k \in AccountEntries : containsScope(k.scopes, lastLookup.request.scopes)}

\* Those of them that also have the requested authority, when one was given.
Matches ==
    IF lastLookup.request.authority = Null THEN ScopeMatches
    ELSE {k \in ScopeMatches : k.authority = lastLookup.request.authority}

\* The lookup repeated on the cache as it is now.
SecondLookup ==
    getCachedToken(cache, clientId, lastLookup.request, lastLookup.account, now,
                   tokenRenewalOffsetSeconds)

\* C6 as stated: with exactly one matching entry the lookup returns its token
\* iff expiresOn > now + offset, the offset being the configured one and 300
\* when none is configured; otherwise it returns none, removes the entry, and
\* a second identical lookup returns none too.
C6_AsStated ==
    (lastLookup.done /\ Cardinality(Matches) = 1) =>
        LET k == CHOOSE m \in Matches : TRUE
            offset == IF tokenRenewalOffsetSeconds.isSet
                      THEN tokenRenewalOffsetSeconds.value ELSE 300
        IN  IF lastLookup.before[k].expiresIn > lastLookup.at + offset
            THEN lastLookup.result = TokenResult(lastLookup.before[k].accessToken)
            ELSE /\ lastLookup.result = NoResult
                 /\ cache = removeItem(lastLookup.before, k)
                 /\ SecondLookup.result = NoResult

\* C6 (amended): with exactly one matching entry the lookup returns its token
\* and keeps the cache iff expiresOn > now + offset, the offset being 300 when
\* none or 0 is configured; otherwise it returns none and removes exactly that
\* entry, and a second identical lookup returns no token and removes nothing:
\* it returns none, or the multiple-authority error when the entries left to
\* the account span several authorities and the request names no authority.
C6_ExpiryCheck ==
    (lastLookup.done /\ Cardinality(Matches) = 1) =>
        LET k == CHOOSE m \in Matches : TRUE
            offset == IF tokenRenewalOffsetSeconds.isSet
                         /\ tokenRenewalOffsetSeconds.value # 0
                      THEN tokenRenewalOffsetSeconds.value ELSE 300
            left == {a \in AccountEntries \ {k} : TRUE}
        IN  IF lastLookup.before[k].expiresIn > lastLookup.at + offset
            THEN /\ lastLookup.result = TokenResult(lastLookup.before[k].accessToken)
                 /\ cache = lastLookup.before
            ELSE /\ lastLookup.result = NoResult
                 /\ cache = removeItem(lastLookup.before, k)
                 /\ SecondLookup.store = cache
                 /\ SecondLookup.result =
                      IF lastLookup.request.authority = Null
                         /\ Cardinality({a.authority : a \in left}) > 1
                      THEN MultipleAuthoritiesError ELSE NoResult

\* A lookup found its single matching entry expired and removed it, with a
\* configured offset in force.
C6_Witness ==
    /\ lastLookup.done
    /\ Cardinality(Matches) = 1
    /\ tokenRenewalOffsetSeconds.isSet /\ tokenRenewalOffsetSeconds.value # 0
    /\ lastLookup.result = NoResult
    /\ cache # lastLookup.before

\* C7: a lookup without an authority that finds more than one entry of the
\* account with a scope superset returns no token but the ambiguity error,
\* and removes no entry.
C7_AmbiguityNeverGuesses ==
    (lastLookup.done /\ lastLookup.request.authority = Null
     /\ Cardinality(ScopeMatches) > 1) =>
        /\ lastLookup.result.kind = "error"
        /\ lastLookup.result.token = Null
        /\ lastLookup.result.error = "multiple_matching_tokens_detected"
        /\ cache = lastLookup.before

\* A lookup without an authority met two matching entries, one of them
\* within the renewal offset of its expiry.
C7_Witness ==
    /\ lastLookup.done
    /\ lastLookup.request.authority = Null
    /\ Cardinality(ScopeMatches) > 1
    /\ \E k \in ScopeMatches : lastLookup.before[k].expiresIn = ConfiguredOffset
    /\ lastLookup.result.kind = "error"

\* C8 as stated: with more than one match and no authority, matches of one
\* authority give the multiple-match error and matches of several authorities
\* give the multiple-authority error.
C8_AsStated ==
    (lastLookup.done /\ lastLookup.request.authority = Null
     /\ Cardinality(ScopeMatches) > 1) =>
        IF Cardinality({k.authority : k \in ScopeMatches}) = 1
        THEN lastLookup.result = MultipleTokensError
        ELSE lastLookup.result = MultipleAuthoritiesError

\* C8 (amended): with more than one match and no authority the lookup gives
\* the multiple-match error whether the matches share one authority or span
\* several; the multiple-authority error is never the answer to several
\* matches.
C8_ErrorKind ==
    (lastLookup.done /\ lastLookup.request.authority = Null
     /\ Cardinality(ScopeMatches) > 1) =>
        /\ lastLookup.result = MultipleTokensError
        /\ lastLookup.result # MultipleAuthoritiesError

\* A lookup without an authority met matches of two authorities.
C8_Witness ==
    /\ lastLookup.done
    /\ lastLookup.request.authority = Null
    /\ Cardinality(ScopeMatches) > 1
    /\ Cardinality({k.authority : k \in ScopeMatches}) > 1
    /\ lastLookup.result = MultipleTokensError

\* C9 as stated: a lookup without an authority that finds no entry of the
\* account with a scope superset returns none, so acquireTokenSilent goes on
\* to the network, whatever the authorities of the account's entries.
C9_AsStated ==
    (lastLookup.done /\ lastLookup.request.authority = Null
     /\ ScopeMatches = {}) =>
        /\ lastLookup.result = NoResult
        /\ cacheDecision(lastLookup.result) = "network"

\* C9 (amended): a lookup without an authority that finds no entry of the
\* account with a scope superset returns none, so acquireTokenSilent goes on
\* to the network, when the account's entries have at most one authority;
\* when they span several it returns the multiple-authority error and
\* acquireTokenSilent rejects.  No entry is removed either way.
C9_NoMatch ==
    (lastLookup.done /\ lastLookup.request.authority = Null
     /\ ScopeMatches = {}) =>
        /\ cache = lastLookup.before
        /\ IF Cardinality({k.authority : k \in AccountEntries}) <= 1
           THEN /\ lastLookup.result = NoResult
                /\ cacheDecision(lastLookup.result) = "network"
           ELSE /\ lastLookup.result = MultipleAuthoritiesError
                /\ cacheDecision(lastLookup.result) = "reject"

\* A lookup without an authority found no match among entries of two
\* authorities.
C9_Witness ==
    /\ lastLookup.done
    /\ lastLookup.request.authority = Null
    /\ ScopeMatches = {}
    /\ Cardinality({k.authority : k \in AccountEntries}) > 1
    /\ lastLookup.result.kind = "error"

\* C10: a lookup with an authority considers the entries of that authority
\* with a scope superset only: none of them gives none, one gives the expiry
\* check of that entry, several give the ambiguity error; a token of another
\* authority is never returned.
C10_ExplicitAuthority ==
    (lastLookup.done /\ lastLookup.request.authority # Null) =>
        LET of == {k \in ScopeMatches : k.authority = lastLookup.request.authority}
        IN  /\ of = {} => lastLookup.result = NoResult /\ cache = lastLookup.before
            /\ Cardinality(of) = 1 =>
                 LET k == CHOOSE m \in of : TRUE
                 IN  \/ /\ lastLookup.result = TokenResult(lastLookup.before[k].accessToken)
                        /\ lastLookup.before[k].expiresIn
                             > lastLookup.at + renewalOffset(tokenRenewalOffsetSeconds)
                        /\ cache = lastLookup.before
                     \/ /\ lastLookup.result = NoResult
                        /\ lastLookup.before[k].expiresIn
                             <= lastLookup.at + renewalOffset(tokenRenewalOffsetSeconds)
                        /\ cache = removeItem(lastLookup.before, k)
            /\ Cardinality(of) > 1 =>
                 lastLookup.result = MultipleTokensError /\ cache = lastLookup.before
            /\ \A k \in DOMAIN lastLookup.before :
                 k.authority # lastLookup.request.authority =>
                     lastLookup.result.token # lastLookup.before[k].accessToken

\* A lookup with an authority returned a token while the account also held a
\* fresh matching entry of another authority.
C10_Witness ==
    /\ lastLookup.done
    /\ lastLookup.request.authority # Null
    /\ lastLookup.result.kind = "token"
    /\ \E k \in ScopeMatches :
         /\ k.authority # lastLookup.request.authority
         /\ lastLookup.before[k].expiresIn = LongLived

(***************************************************************************)
(* Properties of the renewal coordinator (checked under Spec).             *)
(***************************************************************************)
\* The silent renewal of a state is in progress: started, and neither
\* answered nor timed out.
InProgress(st) ==
    st # NoState /\ storage.renewStatus[st] = tokenRenewStatusInProgress

\* The timeout error the dispatch callback rejects with.
TimeoutError == "Token renewal operation failed due to timeout|Token Renewal Failed"

\* C1 as stated: of two acquireTokenSilent calls with the same normalized
\* scope key that both missed the cache and were registered while the
\* renewal is still in progress, the second joined the state of the first:
\* one state is registered for the key, not two renewals in progress at once.
C1_AsStated ==
    \A c1, c2 \in DOMAIN promises :
        (/\ c1 < c2
         /\ promises[c1].api = "acquireTokenSilent"
         /\ promises[c2].api = "acquireTokenSilent"
         /\ promises[c1].scope = promises[c2].scope
         /\ InProgress(promises[c1].state)
         /\ InProgress(promises[c2].state))
        => promises[c1].state = promises[c2].state

\* C2 as stated: after the dispatch callback of a state has run, every
\* continuation that was registered under the state is resolved with the
\* same token, or every one is rejected with the same error.
C2_AsStated ==
    LET waiters == Range(lastDispatch.waiters)
    IN  lastDispatch.state # NoState =>
            \/ \A c \in waiters : /\ promises[c].status = "resolved"
                                  /\ promises[c].value = lastDispatch.token
            \/ \E err \in {promises[c].value : c \in waiters} :
                   \A c \in waiters : /\ promises[c].status = "rejected"
                                      /\ promises[c].value = err

\* The load timeout of state st fires in this step while the renewal is in
\* progress.
TimeoutFires(st) ==
    /\ [kind |-> "loadFrameTimeout", frame |-> "msalIdTokenFrame", state |-> st]
           \in timers \ timers'
       \/ \E k \in RenewalKeys :
              [kind |-> "loadFrameTimeout", frame |-> "msalRenewFrame" \o k,
               state |-> st] \in timers \ timers'
    /\ InProgress(st)

\* C3: when the load timeout of a silent renewal fires while the renewal is in
\* progress, every continuation registered under its state is rejected with
\* the timeout error, the renewal is marked cancelled, the activeRenewals
\* entry it was registered under is cleared (no entry refers to the state any
\* more) and both registrations under the state are deleted.
C3_TimeoutRejectsAll ==
    [][\A st \in StateIds :
          TimeoutFires(st) =>
              /\ \A c \in Range(window.callBacksMappedToRenewStates[st]) :
                     /\ promises'[c].status = "rejected"
                     /\ promises'[c].value = TimeoutError
              /\ storage'.renewStatus[st] = tokenRenewStatusCancelled
              /\ window.callBackMappedToRenewStates[st] # Null
              /\ window'.activeRenewals[window.callBackMappedToRenewStates[st]]
                     = NoState
              /\ \A k \in RenewalKeys : window'.activeRenewals[k] # st
              /\ window'.callBacksMappedToRenewStates[st] = <<>>
              /\ window'.callBackMappedToRenewStates[st] = Null]_vars

\* A timeout has rejected two continuations registered under one state.
C3_Witness ==
    /\ lastDispatch.by = "timeout"
    /\ Len(lastDispatch.waiters) = 2
    /\ \A c \in Range(lastDispatch.waiters) :
           promises[c].status = "rejected" /\ promises[c].value = TimeoutError
    /\ storage.renewStatus[lastDispatch.state] = tokenRenewStatusCancelled

\* Call c was made after the last silent renewal issued for its scope key
\* had timed out.
AfterTimeout(c) ==
    \E st \in promises[c].cancelled :
        /\ requests[st].api = "acquireTokenSilent"
        /\ scopeKey(requests[st].scopes) = promises[c].scope
        /\ storage.renewStatus[st] = tokenRenewStatusCancelled
        /\ \A later \in DOMAIN requests :
               (later > st /\ requests[later].api = "acquireTokenSilent")
               => scopeKey(requests[later].scopes) # promises[c].scope

\* The continuation of the acquireTokenSilent call c is registered in this
\* step (the call has missed the cache and its endpoints are resolved).
Registers(c) ==
    /\ c \in DOMAIN promises
    /\ promises[c].api = "acquireTokenSilent"
    /\ promises[c].resolving
    /\ promises'[c].state # NoState

\* Call c starts a renewal of its own in this step: a new state, registered,
\* with the frame blanked and its navigation armed.
StartsRenewal(c) ==
    LET st == Len(requests) + 1
    IN  /\ Len(requests') = st
        /\ promises'[c].state = st
        /\ c \in Range(window'.callBacksMappedToRenewStates[st])
        /\ storage'.renewStatus[st] = tokenRenewStatusInProgress
        /\ \E t \in timers' \ timers :
               /\ t.kind = "loadFrame"
               /\ t.state = st
               /\ frames'[t.frame] = Blank

\* C4 as stated: after the silent renewal for a scope key has timed out, the
\* next acquireTokenSilent call for the key that misses the cache starts a
\* new renewal, with a new state and a new navigation of the hidden iframe.
C4_AsStated ==
    [][\A c \in Calls :
          (Registers(c) /\ AfterTimeout(c)) => StartsRenewal(c)]_vars

\* C4 (amended): after the silent renewal for a scope key has timed out, the
\* next acquireTokenSilent call for the key that misses the cache starts a
\* new renewal, with a new state and a new navigation of the hidden iframe,
\* unless another attempt has been registered for the key since, which it
\* then joins; it is never attached to a timed-out state.
C4_FreshAttempt ==
    [][\A c \in Calls :
          (Registers(c) /\ AfterTimeout(c)) =>
              /\ storage'.renewStatus[promises'[c].state] # tokenRenewStatusCancelled
              /\ IF window.activeRenewals[promises[c].scope] = NoState
                 THEN StartsRenewal(c)
                 ELSE /\ promises'[c].state = window.activeRenewals[promises[c].scope]
                      /\ requests' = requests]_vars

\* A call made after a timeout for its scope key has started a renewal of its
\* own, and the hidden iframe has been navigated for it.
C4_Witness ==
    \E c \in DOMAIN promises :
        /\ promises[c].api = "acquireTokenSilent"
        /\ promises[c].state # NoState
        /\ requests[promises[c].state].api = "acquireTokenSilent"
        /\ promises[c].state \in Range(navigations)
        /\ \E st \in DOMAIN requests :
               /\ st < promises[c].state
               /\ requests[st].api = "acquireTokenSilent"
               /\ scopeKey(requests[st].scopes) = promises[c].scope
               /\ storage.renewStatus[st] = tokenRenewStatusCancelled

\* Nothing is left that could act on its own: no timer armed, no request at
\* the STS, no endpoint resolution under way, no popup open.
Quiescent ==
    /\ timers = {}
    /\ server = {}
    /\ \A c \in DOMAIN promises : ~promises[c].resolving
    /\ \A i \in DOMAIN window.openedWindows : window.openedWindows[i].closed

\* C5 as stated: every acquireTokenSilent call resolves or rejects; once
\* the endpoint resolutions have ended, the timers have fired and no request
\* or popup is outstanding, no call is left pending.
C5_AsStated ==
    Quiescent =>
        \A c \in DOMAIN promises :
            promises[c].api = "acquireTokenSilent" => promises[c].status # "pending"

(***************************************************************************)
(* Properties of the response correlator and of the interactive entry      *)
(* points (checked under SpecInteractive unless said otherwise).           *)
(***************************************************************************)
\* The step in which the page handles a response.
HandlesResponse == lastResponse' # lastResponse

\* The error waiters are rejected with on a state mismatch.
InvalidStateError == "Invalid_state|Invalid_state"

\* C11 as stated: when a response whose state matches no persisted or issued
\* state is handled, the call it was delivered to (the call whose popup
\* returned with it) is rejected with the invalid-state error, and the token
\* cache is left as it was.
C11_AsStated ==
    [][(HandlesResponse /\ ~lastResponse'.stateMatch /\ lastResponse'.call # NoCall)
           => /\ cache' = cache
              /\ promises'[lastResponse'.call].status = "rejected"
              /\ promises'[lastResponse'.call].value = InvalidStateError]_vars

\* The part of C11 about the cache alone: a state mismatch writes no token.
C11_NoCacheWrite ==
    [][(HandlesResponse /\ ~lastResponse'.stateMatch) => cache' = cache]_vars


\* The response handled carries an id token whose nonce is not the nonce
\* persisted for the flow (and is otherwise a success response of an issued
\* request).
NonceMismatch(r) ==
    /\ r.handled
    /\ r.stateMatch
    /\ r.parameters.error = Null
    /\ r.parameters.id_token # Null
    /\ r.parameters.nonce = ForeignState

\* C12 as stated: when the id token of a handled response carries a nonce
\* different from the persisted one, no waiter is resolved with the token:
\* every waiter registered under the state of the response that the handling
\* settles is rejected.
C12_AsStated ==
    [][(HandlesResponse /\ NonceMismatch(lastResponse'))
           => \A c \in DOMAIN promises :
                  (promises[c].status = "pending" /\ promises'[c].status # "pending")
                      => promises'[c].status = "rejected"]_vars

\* The part of C12 the code keeps: a nonce mismatch signs nobody in (the
\* id token is not persisted, the account of the instance is dropped).
C12_NoSession ==
    [][(HandlesResponse /\ NonceMismatch(lastResponse'))
           => /\ storage'.idToken = storage.idToken
              /\ msal'.pAccount = Null]_vars


\* The response handled is a success response with matching state that
\* carries an access token and a scope parameter, for a request issued for
\* the account that is signed in when the response arrives.
AccessTokenResponse(r) ==
    /\ r.handled
    /\ r.stateMatch
    /\ r.parameters.error = Null
    /\ r.parameters.access_token # Null
    /\ r.parameters.scope # <<>>
    /\ requests[r.request].account # Null
    /\ requests[r.request].account = getAccount(msal, storage)

\* The cache entries of the authority, client id and account of a request
\* whose key scope field is the given scope.
EntriesOf(store, rq, scope) ==
    {k \in DOMAIN store : /\ k.authority = rq.authority
                          /\ k.clientId = clientId
                          /\ k.userIdentifier = rq.account
                          /\ k.scopes = scope}

NewCall(apis) ==
    /\ Len(promises') = Len(promises) + 1
    /\ promises'[Len(promises')].api \in apis

LoginInProgressError == "login_progress_error|Login is in progress"

\* C14 as stated: a loginPopup or loginRedirect call made while a login is in
\* progress fails at once with the login-in-progress error, opens no popup,
\* starts no navigation and no endpoint resolution, whether or not a redirect
\* callback is registered.
C14_AsStated ==
    [][(NewCall({"loginPopup", "loginRedirect"}) /\ msal.pLoginInProgress)
           => LET p == promises'[Len(promises')]
              IN  /\ p.status = "rejected"
                  /\ p.value = LoginInProgressError
                  /\ ~p.resolving
                  /\ window'.openedWindows = window.openedWindows
                  /\ window'.location = window.location]_vars

\* The part of C14 that holds: loginPopup fails fast while a login is in
\* progress, and so does loginRedirect when a redirect callback is
\* registered.
C14_WithCallback ==
    [][(/\ NewCall({"loginPopup", "loginRedirect"})
        /\ msal.pLoginInProgress
        /\ (promises'[Len(promises')].api = "loginRedirect"
                => msal.pTokenReceivedCallback))
           => LET p == promises'[Len(promises')]
              IN  /\ p.status = "rejected"
                  /\ p.value = LoginInProgressError
                  /\ ~p.resolving
                  /\ window'.openedWindows = window.openedWindows]_vars


\* C15 as stated: a loginRedirect call on an engine without a redirect
\* callback fails with an error and starts nothing: no endpoint resolution
\* (and so no navigation), no login in progress.
C15_AsStated ==
    [][(NewCall({"loginRedirect"}) /\ ~msal.pTokenReceivedCallback)
           => LET p == promises'[Len(promises')]
              IN  /\ p.status = "rejected"
                  /\ ~p.resolving
                  /\ msal'.pLoginInProgress = msal.pLoginInProgress]_vars

\* What loginRedirect does without a redirect callback: whatever its scopes
\* and whether or not a login is in progress, it reports nothing and goes on
\* to loginRedirectHelper.
C15_Proceeds ==
    [][(NewCall({"loginRedirect"}) /\ ~msal.pTokenReceivedCallback)
           => LET p == promises'[Len(promises')]
              IN  /\ p.status = "pending"
                  /\ p.resolving
                  /\ msal'.pLoginInProgress]_vars

\* A page without a redirect callback has navigated to the STS for a
\* loginRedirect call.
C15_Navigated ==
    /\ ~msal.pTokenReceivedCallback
    /\ \E c \in DOMAIN promises :
           /\ promises[c].api = "loginRedirect"
           /\ promises[c].state # NoState
           /\ window.location = AuthorizeUrl(promises[c].state)


\* The values a call is rejected with for invalid scopes.
InputScopesErrors ==
    {"input_scopes_error|Invalid value for scopes"}
        \cup {"input_scopes_error|" \o validateInputScope(sc) : sc \in InvalidScopes}

\* C16 as stated: a call of an entry point with invalid scopes, made while
\* nothing is in progress, reports the input-scopes error and does nothing
\* else: no popup, no endpoint resolution (and so no navigation or iframe
\* load), no in-progress flag set, nothing persisted or registered.
C16_AsStated ==
    [][(/\ Len(promises') = Len(promises) + 1
        /\ promises'[Len(promises')].scopes \in InvalidScopes
        /\ ~msal.pLoginInProgress
        /\ ~msal.pAcquireTokenInProgress)
           => LET p == promises'[Len(promises')]
              IN  /\ p.status = "rejected"
                  /\ p.value \in InputScopesErrors
                  /\ ~p.resolving
                  /\ window' = window
                  /\ storage' = storage
                  /\ ~msal'.pLoginInProgress
                  /\ ~msal'.pAcquireTokenInProgress]_vars

\* The part of C16 that holds: loginPopup always, and loginRedirect and
\* acquireTokenRedirect when a redirect callback is registered, report the
\* error and do nothing else.
C16_WhereChecked ==
    [][(/\ Len(promises') = Len(promises) + 1
        /\ promises'[Len(promises')].scopes \in InvalidScopes
        /\ ~msal.pLoginInProgress
        /\ ~msal.pAcquireTokenInProgress
        /\ \/ promises'[Len(promises')].api = "loginPopup"
           \/ /\ promises'[Len(promises')].api
                     \in {"loginRedirect", "acquireTokenRedirect"}
              /\ msal.pTokenReceivedCallback)
           => LET p == promises'[Len(promises')]
              IN  /\ p.status = "rejected"
                  /\ p.value \in InputScopesErrors
                  /\ ~p.resolving
                  /\ window' = window
                  /\ storage' = storage
                  /\ ~msal'.pLoginInProgress
                  /\ ~msal'.pAcquireTokenInProgress]_vars


\* An acquireTokenPopup call rejected for its invalid scopes has all the same
\* opened its popup and set the acquire-token flag.
C16_PopupOpened ==
    \E c \in DOMAIN promises :
        /\ promises[c].api = "acquireTokenPopup"
        /\ promises[c].value \in InputScopesErrors
        /\ msal.pAcquireTokenInProgress
        /\ \E i \in DOMAIN window.openedWindows :
               window.openedWindows[i].promise = c


\* The values a popup call is rejected with when the endpoints cannot be
\* resolved.
EndpointErrors ==
    {"endpoints_resolution_error:Error: could not resolve endpoints",
     "endpoints_resolution_error|Error: could not resolve endpoints"}

\* The endpoint resolution of a call has failed: a popup call was rejected by
\* its failure handler; a redirect call went on to resolve the endpoints and
\* its continuation never ran.
EndpointsFailed(c) ==
    IF promises[c].api \in {"loginPopup", "acquireTokenPopup"}
    THEN promises[c].value \in EndpointErrors
    ELSE /\ promises[c].api \in {"loginRedirect", "acquireTokenRedirect"}
         /\ promises[c].authority # Null
         /\ ~promises[c].resolving
         /\ promises[c].state = NoState

\* The poll timers of the popups of a call have nothing left to do.
PollsDone(c) ==
    \A i \in DOMAIN window.openedWindows :
        (window.openedWindows[i].promise = c /\ window.openedWindows[i].polling)
            => ~ \/ window.openedWindows[i].closed /\ msal.pLoginInProgress
                 \/ ~window.openedWindows[i].closed
                        /\ window.openedWindows[i].returned # ""

\* The in-progress flag of the entry point of a call.
FlagOf(c) ==
    IF promises[c].api \in {"loginPopup", "loginRedirect"}
    THEN msal.pLoginInProgress
    ELSE msal.pAcquireTokenInProgress

\* C17 as stated: when the endpoint resolution of the only call made on the
\* page has failed (and the poll of its popup has run), the call has failed
\* with the endpoint-resolution error and the in-progress flag of its entry
\* point is false.
C17_AsStated ==
    (/\ Len(promises) = 1
     /\ EndpointsFailed(1)
     /\ PollsDone(1))
        => /\ promises[1].status = "rejected"
           /\ promises[1].value \in EndpointErrors
           /\ ~FlagOf(1)

\* The part of C17 that holds: for loginPopup the call is rejected with the
\* endpoint-resolution error and, once the poll of its closed popup has run,
\* no login is in progress.
C17_LoginPopup ==
    (/\ Len(promises) = 1
     /\ promises[1].api = "loginPopup"
     /\ EndpointsFailed(1)
     /\ PollsDone(1))
        => /\ promises[1].status = "rejected"
           /\ ~msal.pLoginInProgress

\* acquireTokenPopup after a failed endpoint resolution: the popup closed,
\* its poll idle, and the acquire-token flag still set.
C17_FlagStuck ==
    /\ Len(promises) = 1
    /\ promises[1].api = "acquireTokenPopup"
    /\ promises[1].value \in EndpointErrors
    /\ PollsDone(1)
    /\ msal.pAcquireTokenInProgress


\* The popup of a call was closed by the user before it returned to the
\* redirect URI: the call was made with valid scopes and its endpoints were
\* resolved (the popup was sent to the STS), so that no handler of the
\* library closed the popup.
ClosedByUser(i) ==
    /\ window.openedWindows[i].closed
    /\ window.openedWindows[i].returned = ""
    /\ promises[window.openedWindows[i].promise].state # NoState
    /\ promises[window.openedWindows[i].promise].scopes \notin InvalidScopes

UserCancelledError == "user_cancelled|User cancelled the flow"

\* C18 as stated: when the user has closed the popup of the only popup call
\* made on the page before it returned, and the poll of the popup has run,
\* the call is rejected with the user-cancelled error and the in-progress
\* flag of its entry point is cleared.
C18_AsStated ==
    \A i \in DOMAIN window.openedWindows :
        (/\ Len(promises) = 1
         /\ ClosedByUser(i)
         /\ PollsDone(1))
            => /\ promises[1].status = "rejected"
               /\ promises[1].value = UserCancelledError
               /\ ~FlagOf(1)

\* The part of C18 that holds: for loginPopup the promise is rejected with
\* the user-cancelled error and no login is in progress once the poll has
\* run.
C18_LoginPopup ==
    \A i \in DOMAIN window.openedWindows :
        (/\ Len(promises) = 1
         /\ promises[1].api = "loginPopup"
         /\ ClosedByUser(i)
         /\ PollsDone(1))
            => /\ promises[1].status = "rejected"
               /\ promises[1].value = UserCancelledError
               /\ ~msal.pLoginInProgress

\* The other half of C18: a tick of the poll timer rejects no promise but
\* the one of its own popup.
C18_OwnWaiterOnly ==
    [][(promises' # promises /\ Len(promises') = Len(promises)
        /\ lastResponse' = lastResponse
        /\ \E c \in DOMAIN promises :
               /\ promises[c].status = "pending"
               /\ promises'[c].value = UserCancelledError)
           => \A c \in DOMAIN promises :
                  promises'[c] # promises[c]
                      => \E i \in DOMAIN window.openedWindows :
                             /\ window.openedWindows[i].promise = c
                             /\ window.openedWindows[i].closed]_vars


\* loginPopup cancelled as C18 says: the user closed its popup at the STS,
\* the poll rejected the promise and cleared the flag.
C18_LoginPopupCancelled ==
    /\ Len(promises) = 1
    /\ promises[1].api = "loginPopup"
    /\ promises[1].value = UserCancelledError
    /\ \E i \in DOMAIN window.openedWindows : ClosedByUser(i)
    /\ ~msal.pLoginInProgress


\* The page has logged out: logout() sent it to the logout endpoint.
LoggedOut == window.location = LogoutUrl

\* The lookups tried on the cache of a logged-out page.
LogoutLookups ==
    [scopes : {<<"s1">>, <<"S1">>, <<clientId>>},
     authority : {Null, DefaultAuthority}]

\* C19: after logout getAccount returns null, the token cache holds no
\* entry, every lookup returns none, and the list of issued renewal states
\* is empty.
C19_LogoutClears ==
    LoggedOut
        => /\ getAccount(msal, storage) = Null
           /\ cache = <<>>
           /\ \A request \in LogoutLookups, account \in {"u1", Null} :
                  getCachedToken(cache, clientId, request, account, now,
                                 tokenRenewalOffsetSeconds).result = NoResult
           /\ window.renewStates = <<>>

\* A page logged out after a login through a popup had succeeded on it (an
\* account signed in, a token cached, a renewal state issued).
C19_Witness ==
    /\ LoggedOut
    /\ lastResponse.handled
    /\ lastResponse.stateMatch
    /\ \E c \in DOMAIN promises :
           /\ promises[c].status = "resolved"
           /\ promises[c].state = lastResponse.parameters.state


\* The renewal attempt of a state is outstanding: its dispatch callback is
\* registered and has not run.
Outstanding(w, st) == st # NoState /\ w.callBackMappedToRenewStates[st] # Null

\* The renewal attempts outstanding for a scope key: the states whose
\* dispatch callback was registered under the key.
OutstandingFor(w, key) ==
    {st \in StateIds : w.callBackMappedToRenewStates[st] = key}

\* C20 as stated, first half: for every scope key at most one renewal
\* attempt is outstanding.
C20_AsStated ==
    \A key \in RenewalKeys : Cardinality(OutstandingFor(window, key)) <= 1

\* C20, second half: while the attempt activeRenewals names for a key is
\* outstanding, no step other than its own conclusion clears or overwrites
\* the entry.
C20_EntryKept ==
    [][\A key \in RenewalKeys :
           (/\ Outstanding(window, window.activeRenewals[key])
            /\ Outstanding(window', window.activeRenewals[key]))
               => window'.activeRenewals[key] = window.activeRenewals[key]]_vars


(***************************************************************************)
(* Properties of the id-token renewal key, of response validation and of   *)
(* the effects of a response on the session.                               *)
(***************************************************************************)
\* An id-token-only renewal (scopes exactly the client id) issued by
\* acquireTokenSilent is in flight: in progress and not yet dispatched.
IdTokenRenewalInFlight ==
    \E st \in DOMAIN requests :
        /\ requests[st].api = "acquireTokenSilent"
        /\ requests[st].scopes = <<clientId>>
        /\ InProgress(st)
        /\ window.callBackMappedToRenewStates[st] # Null

\* C21 as stated: whatever the letter case of the client id, an
\* id-token-only acquireTokenSilent call whose continuation is registered
\* while an id-token-only renewal is in flight issues no new request and
\* starts no second navigation of the hidden iframe.
C21_AsStated ==
    [][\A c \in Calls :
          (/\ Registers(c)
           /\ promises[c].scopes = <<clientId>>
           /\ IdTokenRenewalInFlight)
              => /\ requests' = requests
                 /\ timers' = timers
                 /\ frames' = frames]_vars

\* What holds of C21: with a client id in lower case the second call joins
\* the renewal in flight.
C21_LowerCaseClientId ==
    [][\A c \in Calls :
          (/\ Registers(c)
           /\ promises[c].scopes = <<clientId>>
           /\ clientId = toLowerCase(clientId)
           /\ IdTokenRenewalInFlight)
              => /\ requests' = requests
                 /\ timers' = timers
                 /\ frames' = frames]_vars


\* C22 as stated: a response that fails nonce validation writes no token
\* cache entry and evicts none, also when it carries both an access token
\* and an id token.
C22_AsStated ==
    [][(HandlesResponse /\ NonceMismatch(lastResponse')) => cache' = cache]_vars

\* What holds of C22: a response that carries an id token only and fails
\* nonce validation leaves the token cache as it was.
C22_IdTokenOnly ==
    [][(/\ HandlesResponse
        /\ NonceMismatch(lastResponse')
        /\ lastResponse'.parameters.access_token = Null) => cache' = cache]_vars


\* The response handled fails validation: its state matches nothing, or its
\* id token carries a nonce other than the persisted one, or no nonce.
NoNonce(r) ==
    /\ r.handled
    /\ r.stateMatch
    /\ r.parameters.error = Null
    /\ r.parameters.id_token # Null
    /\ r.parameters.nonce = NoState

StateMismatch(r) ==
    /\ r.handled
    /\ ~r.stateMatch
    /\ r.parameters.error = Null

FailsValidation(r) == StateMismatch(r) \/ NonceMismatch(r) \/ NoNonce(r)

\* C23 as stated: processing a response that fails validation leaves the
\* current account as it was: getAccount returns the same account, or the
\* same absence of one, before and after.
C23_AsStated ==
    [][(HandlesResponse /\ FailsValidation(lastResponse'))
           => getAccount(msal', storage') = getAccount(msal, storage)]_vars

\* What holds of C23: a response whose state matches nothing changes neither
\* the account of the instance nor the persisted id token.
C23_StateMismatch ==
    [][(HandlesResponse /\ StateMismatch(lastResponse'))
           => /\ msal'.pAccount = msal.pAccount
              /\ storage'.idToken = storage.idToken]_vars


\* The persisted state and nonce of the outstanding requests, as the response
\* handler reads them, and the renewal registrations of the page.
PersistedAuthState(m, sto) ==
    [k \in {"stateLogin", "stateAcquireToken", "nonceIdToken"} |-> getItem(m, sto, k)]

RenewalRegistrations(w) ==
    <<w.renewStates, w.activeRenewals, w.callBackMappedToRenewStates,
      w.callBacksMappedToRenewStates>>

\* C24 as stated: processing a response whose state matches nothing leaves
\* the persisted state and nonce of every outstanding request, and every
\* renewal registration, as they were, with and without the mirroring of the
\* authentication state to cookies.
C24_AsStated ==
    [][(HandlesResponse /\ StateMismatch(lastResponse'))
           => /\ PersistedAuthState(msal', storage') = PersistedAuthState(msal, storage)
              /\ RenewalRegistrations(window') = RenewalRegistrations(window)]_vars

\* What holds of C24: without the mirroring to cookies the persisted state
\* and nonce and the registrations are left as they were.
C24_WithoutCookies ==
    [][(/\ HandlesResponse
        /\ StateMismatch(lastResponse')
        /\ ~msal.storeAuthStateInCookie)
           => /\ PersistedAuthState(msal', storage') = PersistedAuthState(msal, storage)
              /\ RenewalRegistrations(window') = RenewalRegistrations(window)]_vars

\* What holds of C24 with the mirroring: the registrations are left as they
\* were.
C24_Registrations ==
    [][(HandlesResponse /\ StateMismatch(lastResponse'))
           => RenewalRegistrations(window') = RenewalRegistrations(window)]_vars



\* Two cache entries of the same authority, client id and account.
SameOwner(k1, k2) ==
    /\ k1.authority = k2.authority
    /\ k1.clientId = k2.clientId
    /\ k1.userIdentifier = k2.userIdentifier

\* C25 as stated: no two cache entries of the same authority, client id and
\* account have intersecting scope sets.
C25_AsStated ==
    \A k1, k2 \in DOMAIN cache :
        (k1 # k2 /\ SameOwner(k1, k2)) => ~isIntersectingScopes(k1.scopes, k2.scopes)


\* What holds of C25: the entries whose scopes validateInputScope accepts do
\* not intersect one another within one authority, client id and account.
C25_ValidScopes ==
    \A k1, k2 \in DOMAIN cache :
        (/\ k1 # k2
         /\ SameOwner(k1, k2)
         /\ k1.scopes \notin InvalidScopes
         /\ k2.scopes \notin InvalidScopes)
            => ~isIntersectingScopes(k1.scopes, k2.scopes)



\* The state of the response handled equals the persisted login state or the
\* silent-login state of the instance.
MatchesLoginState(r) ==
    \/ r.parameters.state = getItem(msal, storage, "stateLogin")
    \/ r.parameters.state = msal.pSilentAuthenticationState

\* The state of the response handled is matched only by the list of issued
\* renewal states of the page.
MatchesRenewStatesOnly(r) ==
    /\ ~MatchesLoginState(r)
    /\ r.parameters.state # getItem(msal, storage, "stateAcquireToken")
    /\ r.parameters.state \in Range(window.renewStates)

\* C26 as stated: a response is classified LOGIN only when its state equals
\* the persisted login state or the silent-login state, and a response whose
\* state is matched only by the list of issued renewal states is classified
\* RENEW_TOKEN, whichever kind of request was issued most recently.
C26_AsStated ==
    [][HandlesResponse
           => /\ lastResponse'.requestType = LOGIN => MatchesLoginState(lastResponse')
              /\ MatchesRenewStatesOnly(lastResponse')
                     => lastResponse'.requestType = RENEW_TOKEN]_vars

\* The response to a silent token renewal has been classified LOGIN.
C26_RenewalClassifiedLogin ==
    /\ lastResponse.handled
    /\ lastResponse.request \in DOMAIN requests
    /\ requests[lastResponse.request].api = "acquireTokenSilent"
    /\ requests[lastResponse.request].responseType = "token"
    /\ lastResponse.stateMatch
    /\ lastResponse.requestType = LOGIN

\* What holds of C26: a response whose state is matched only by the list of
\* issued renewal states is classified as the request issued most recently.
C26_LastIssued ==
    [][(HandlesResponse /\ MatchesRenewStatesOnly(lastResponse'))
           => lastResponse'.requestType = window.requestType]_vars



\* The response handled in this step is fully validated: its state matches,
\* it is no error, and the nonce of its id token, if it carries one, is the
\* persisted nonce.
Validated(r) ==
    /\ r.handled
    /\ r.stateMatch
    /\ r.parameters.error = Null
    /\ r.parameters.id_token # Null
           => r.parameters.nonce = getItem(msal, storage, "nonceIdToken")

\* The step is a call of logout().
LogsOut == window.location # LogoutUrl /\ window'.location = LogoutUrl

\* C27 as stated: the current account changes only when a fully validated
\* response classified LOGIN is processed, or on logout; a validated response
\* classified RENEW_TOKEN leaves the current account and the persisted id
\* token as they were.
C27_AsStated ==
    [][/\ getAccount(msal', storage') # getAccount(msal, storage)
           => \/ /\ HandlesResponse
                 /\ Validated(lastResponse')
                 /\ lastResponse'.requestType = LOGIN
              \/ LogsOut
       /\ (/\ HandlesResponse
           /\ Validated(lastResponse')
           /\ lastResponse'.requestType = RENEW_TOKEN)
              => /\ getAccount(msal', storage') = getAccount(msal, storage)
                 /\ storage'.idToken = storage.idToken]_vars

\* What holds of C27: a validated RENEW_TOKEN response that carries no id
\* token leaves the current account and the persisted id token as they were.
C27_NoIdToken ==
    [][(/\ HandlesResponse
        /\ Validated(lastResponse')
        /\ lastResponse'.requestType = RENEW_TOKEN
        /\ lastResponse'.parameters.id_token = Null)
           => /\ getAccount(msal', storage') = getAccount(msal, storage)
              /\ storage'.idToken = storage.idToken]_vars


\* The second half of C27 alone: a validated response classified RENEW_TOKEN
\* leaves the current account and the persisted id token as they were.
C27_RenewTokenKeeps ==
    [][(/\ HandlesResponse
        /\ Validated(lastResponse')
        /\ lastResponse'.requestType = RENEW_TOKEN)
           => /\ getAccount(msal', storage') = getAccount(msal, storage)
              /\ storage'.idToken = storage.idToken]_vars



\* The response handled consumes a state that was issued: its state matches.
Consumes(r) == r.handled /\ r.stateMatch

\* No scratch entry written for state s is in storage.
NoScratchEntries(sto, s) ==
    /\ sto.authority[s] = Null
    /\ sto.acquireTokenUser[s] = Null

\* C28 as stated: when a response consuming state s has been processed,
\* success or error-shaped, the scratch entries written for s (the authority
\* of s and the acquire-token account of s) are no longer in storage.
C28_AsStated ==
    [][(HandlesResponse /\ Consumes(lastResponse'))
           => NoScratchEntries(storage', lastResponse'.parameters.state)]_vars

\* What holds of C28: the authority entry of s is removed by every response
\* consuming s that is no error of a request of unknown type.
C28_AuthorityRemoved ==
    [][(/\ HandlesResponse
        /\ Consumes(lastResponse')
        /\ lastResponse'.requestType \in {LOGIN, RENEW_TOKEN})
           => storage'.authority[lastResponse'.parameters.state] = Null]_vars


\* C28 for success responses alone: a response consuming s that is no error
\* leaves no scratch entry of s in storage.
C28_SuccessShaped ==
    [][(/\ HandlesResponse
        /\ Consumes(lastResponse')
        /\ lastResponse.parameters.error = Null
        /\ lastResponse'.parameters.error = Null)
           => NoScratchEntries(storage', lastResponse'.parameters.state)]_vars



\* The dispatch callback of state s runs in this step: it was registered and
\* no longer is.
Runs(s) ==
    /\ window.callBackMappedToRenewStates[s] # Null
    /\ window'.callBackMappedToRenewStates[s] = Null

\* A request with state s has been issued.
Issued(s) == \E i \in DOMAIN requests : requests[i].state = s

\* C29: the dispatch callback of a state runs at most once and each
\* continuation is settled at most once: when the callback of s runs,
\* neither the callback, nor the continuation list, nor an activeRenewals
\* entry refers to s afterwards; the callback of a state that was issued and
\* has none registered is never registered again; and a settled continuation
\* keeps its settlement.  This holds when the response and the timeout of s
\* both occur, in either order.
C29_DispatchOnce ==
    [][/\ \A s \in AllStates :
            /\ Runs(s)
                   => /\ window'.callBacksMappedToRenewStates[s] = <<>>
                      /\ \A key \in DOMAIN window'.activeRenewals :
                             window'.activeRenewals[key] # s
            /\ (Issued(s) /\ window.callBackMappedToRenewStates[s] = Null)
                   => /\ window'.callBackMappedToRenewStates[s] = Null
                      /\ window'.callBacksMappedToRenewStates[s] = <<>>
       /\ \A c \in DOMAIN promises :
              promises[c].status # "pending"
                  => /\ promises'[c].status = promises[c].status
                     /\ promises'[c].value = promises[c].value]_vars

\* The timeout of a renewal has run the callback of its state, and the
\* response of that state was handled afterwards and found none registered.
C29_Witness ==
    /\ lastDispatch.by = "timeout"
    /\ lastResponse.handled
    /\ lastResponse.parameters.state = lastDispatch.state
    /\ ~lastResponse.registered
    /\ lastResponse.stateMatch



\* State s has had its conclusion: the response consuming it was processed,
\* or the renewal issued with it timed out and was cancelled.
Concluded(s) ==
    storage.renewStatus[s] \in {tokenRenewStatusCompleted, tokenRenewStatusCancelled}

\* C30 as stated: a response carrying a state that has had its conclusion is
\* treated as a state mismatch, and writes nothing to the token cache and
\* changes no account.
C30_AsStated ==
    [][(HandlesResponse /\ Concluded(lastResponse'.parameters.state))
           => /\ ~lastResponse'.stateMatch
              /\ cache' = cache
              /\ getAccount(msal', storage') = getAccount(msal, storage)]_vars

\* What holds of C30: a response carrying a state that has had its conclusion
\* finds no dispatch callback registered, so no continuation is settled by it.
C30_NoDispatch ==
    [][(HandlesResponse /\ Concluded(lastResponse'.parameters.state))
           => /\ ~lastResponse'.registered
              /\ promises' = promises]_vars



\* The response handled in this step is the genuine response of its request:
\* no error, a matching state, and an id token echoing the nonce of the
\* request.
GenuineIdTokenResponse(r) ==
    /\ r.handled
    /\ r.stateMatch
    /\ r.parameters.error = Null
    /\ r.parameters.id_token # Null
    /\ r.request \in DOMAIN requests
    /\ r.parameters.state = requests[r.request].state
    /\ r.parameters.nonce = requests[r.request].nonce

\* C31 as stated: the genuine response of a request, echoing the state and
\* nonce of that request, passes nonce validation, whatever other requests
\* are outstanding and in whatever order requests and responses come.
C31_AsStated ==
    [][(HandlesResponse /\ GenuineIdTokenResponse(lastResponse'))
           => lastResponse'.parameters.nonce = getItem(msal, storage, "nonceIdToken")]_vars

\* What holds of C31: the genuine response of the request issued last passes
\* nonce validation.
C31_LastIssued ==
    [][(/\ HandlesResponse
        /\ GenuineIdTokenResponse(lastResponse')
        /\ lastResponse'.request = Len(requests))
           => lastResponse'.parameters.nonce = getItem(msal, storage, "nonceIdToken")]_vars



\* C32: acquireTokenSilent called in a nested browsing context returns a
\* promise that never settles and changes nothing: the call leaves the token
\* cache, the persisted state, the registries of window, the frames, the
\* timers and the issued requests as they were, and every promise it made
\* stays pending.
C32_NestedCallInert ==
    [][isInIframe(window)
           => /\ NewCall({"acquireTokenSilent"})
                     => /\ promises'[Len(promises')].status = "pending"
                        /\ ~promises'[Len(promises')].resolving
                        /\ UNCHANGED <<cache, lastLookup, msal, window, storage,
                                       frames, timers, requests, server,
                                       navigations, lastDispatch>>
              /\ \A c \in DOMAIN promises :
                     promises[c].api = "acquireTokenSilent"
                         => /\ promises'[c].status = "pending"
                            /\ ~promises'[c].resolving]_vars

\* A nested instance with a signed-in account and a cached token for scope
\* s1 has been asked for that scope, and for invalid scopes, and both
\* promises are pending.
C32_Witness ==
    /\ isInIframe(window)
    /\ storage.idToken # Null
    /\ \E k \in DOMAIN cache : k.scopes = <<"s1">>
    /\ \E c, d \in DOMAIN promises :
           /\ promises[c].api = "acquireTokenSilent"
           /\ promises[c].scopes = <<"s1">>
           /\ promises[c].status = "pending"
           /\ promises[d].api = "acquireTokenSilent"
           /\ promises[d].scopes = <<>>
           /\ promises[d].status = "pending"



\* The step is the load of the page at the redirect URI with the response of
\* a full-page redirect in its hash.
RedirectResponseLoaded ==
    /\ HandlesResponse
    /\ \E st \in DOMAIN requests : window.location = AuthorizeUrl(st)
    /\ window'.location = AppPage

\* C33 as stated: with navigation back to the login-request URL enabled, a
\* top-level redirect response is stored as the pending hash without a token
\* being saved or the redirect callback being called; and loginInProgress
\* reports true exactly while a pending hash is stored or a login is in
\* progress.
C33_AsStated ==
    [][/\ (RedirectResponseLoaded /\ msal.navigateToLoginRequestUrl)
              => /\ storage'.urlHash # Null
                 /\ storage'.urlHash = lastResponse'.parameters
                 /\ cache' = cache
                 /\ storage'.idToken = storage.idToken
                 /\ lastDispatch' = lastDispatch
       /\ loginInProgress(msal', storage')
              <=> (storage'.urlHash # Null \/ msal'.pLoginInProgress)]_vars

\* What holds of C33: the response of a top-level redirect is saved by the
\* page loaded at the redirect URI itself, whatever the option says, and no
\* pending hash is ever stored.
C33_NeverPending ==
    storage.urlHash = Null

\* A successful login response came back from a redirect with the option
\* enabled and its id token was saved at once.
C33_SavedAtOnce ==
    /\ msal.navigateToLoginRequestUrl
    /\ lastResponse.handled
    /\ lastResponse.call = NoCall
    /\ lastResponse.parameters.id_token # Null
    /\ storage.idToken # Null
    /\ lastDispatch.by = "redirect"



OwnEntries(store, account) ==
    [k \in {j \in DOMAIN store : j.clientId = clientId /\ j.userIdentifier = account}
        |-> store[k]]

\* C35: the result of a lookup depends only on the entries of the request's
\* account and of the engine's client id (it is the result of the same lookup
\* in the cache without the other entries), a token comes from such an entry,
\* and a lookup with no account returns no token.
C35_AsStated ==
    lastLookup.done =>
        /\ lastLookup.result =
               getCachedToken(OwnEntries(lastLookup.before, lastLookup.account),
                              clientId, lastLookup.request, lastLookup.account,
                              lastLookup.at, tokenRenewalOffsetSeconds).result
        /\ lastLookup.result.kind = "token" =>
               /\ lastLookup.account # Null
               /\ \E k \in DOMAIN lastLookup.before :
                      /\ k.clientId = clientId
                      /\ k.userIdentifier = lastLookup.account
                      /\ lastLookup.before[k].accessToken = lastLookup.result.token

\* C35, the token alone: a lookup never returns the token of an entry of
\* another client id or of another account.
C35_TokenOfOwnEntry ==
    lastLookup.done /\ lastLookup.result.kind = "token" =>
        \E k \in DOMAIN lastLookup.before :
            /\ k.clientId = clientId
            /\ k.userIdentifier = lastLookup.account
            /\ lastLookup.before[k].accessToken = lastLookup.result.token

\* C35 where no key of the cache holds the client id outside its clientId
\* field (SpecCache).
C35_DisjointKeyTexts ==
    lastLookup.done /\ (\A k \in DOMAIN lastLookup.before : ApiScope \notin Range(k.scopes))
        => C35_AsStated



\* The CacheResult of the lookup of a call of acquireTokenSilent(scopes) made
\* in the current state.
SilentLookup(scopes) ==
    getCachedToken(cache, clientId, [scopes |-> scopes, authority |-> Null],
                   getAccount(msal, storage), now, tokenRenewalOffsetSeconds).result

\* A step is a call of acquireTokenSilent that gets as far as the cache
\* lookup and finds a token or an ambiguity error.
SilentCallFinds(kind) ==
    /\ Len(promises') = Len(promises) + 1
    /\ promises'[Len(promises')].api = "acquireTokenSilent"
    /\ ~isInIframe(window)
    /\ promises'[Len(promises')].account # Null
    /\ promises'[Len(promises')].value \notin
           {"input_scopes_error|" \o validateInputScope(scopesIn) :
               scopesIn \in InvalidScopes}
    /\ SilentLookup(promises'[Len(promises')].scopes).kind = kind

\* C36: a call of acquireTokenSilent that finds a token or an ambiguity error
\* in the cache is settled by the call itself, resolved with the token or
\* rejected with the error, and resolves no authority, registers no renewal,
\* loads no frame, starts no timer, issues no request and leaves the
\* persisted state and the cache as they were.
C36_HitSettlesAtOnce ==
    [][ LET c == Len(promises')
            r == SilentLookup(promises'[c].scopes)
        IN  (SilentCallFinds("token") \/ SilentCallFinds("error")) =>
              /\ r.kind = "token" =>
                     promises'[c].status = "resolved" /\ promises'[c].value = r.token
              /\ r.kind = "error" =>
                     /\ promises'[c].status = "rejected"
                     /\ promises'[c].value = r.errorDesc \o "|" \o r.error
              /\ ~promises'[c].resolving
              /\ promises'[c].state = NoState
              /\ UNCHANGED <<window, storage, cache, frames, timers, requests,
                             server, navigations, lastDispatch>>
      ]_vars

\* A call of acquireTokenSilent has been rejected from the cache with the
\* ambiguity error.
C36_Witness ==
    \E c \in DOMAIN promises :
        /\ promises[c].api = "acquireTokenSilent"
        /\ promises[c].status = "rejected"
        /\ promises[c].value = MultipleTokensError.errorDesc \o "|"
                               \o MultipleTokensError.error
        /\ promises[c].state = NoState

\* A call of acquireTokenSilent has been resolved from the cache.
C36_HitReached ==
    \E c \in DOMAIN promises :
        /\ promises[c].api = "acquireTokenSilent"
        /\ promises[c].status = "resolved"
        /\ promises[c].state = NoState
        /\ \E k \in DOMAIN cache : cache[k].accessToken = promises[c].value



\* The rejection of a call made with an empty scope array.
EmptyScopesRejection ==
    "input_scopes_error|" \o "Scopes cannot be passed as an empty array"

\* C37: no acquire-token request is issued with an empty set of scopes, and a
\* call of acquireTokenSilent whose scopes are empty once openid and profile
\* are filtered out is rejected like a call with an empty array.
C37_AsStated ==
    /\ \A st \in DOMAIN requests :
           requests[st].api = "acquireTokenSilent" => requests[st].scopes # <<>>
    /\ \A c \in DOMAIN promises :
           promises[c].api = "acquireTokenSilent" /\ promises[c].scopes = <<>>
               => /\ promises[c].status = "rejected"
                  /\ promises[c].value = EmptyScopesRejection

\* C37 for the scopes validateInputScope looks at: a call with an empty
\* array is rejected, and the only calls with no scopes that go past the
\* validation are those that had reserved scopes alone.
C37_EmptyArrayRejected ==
    [][ \A scopesIn \in SilentScopes \cup InvalidScopes \cup ReservedOnlyScopes :
          AcquireTokenSilent(scopesIn) =>
              /\ scopesIn = <<>> =>
                     /\ promises'[Len(promises')].status = "rejected"
                     /\ promises'[Len(promises')].value = EmptyScopesRejection
              /\ (promises'[Len(promises')].scopes = <<>>
                    /\ promises'[Len(promises')].value # EmptyScopesRejection)
                     => scopesIn \in ReservedOnlyScopes
      ]_vars

\* A renewal request with no scopes has been issued for a call made with
\* reserved scopes only.
C37_EmptyRequestIssued ==
    \E st \in DOMAIN requests :
        /\ requests[st].api = "acquireTokenSilent"
        /\ requests[st].scopes = <<>>
        /\ frames["msalRenewFrame"] = st



\* C38: after a run of the dispatch callback of a state, every continuation
\* that was registered under the state is resolved or rejected.
C38_AsStated ==
    lastDispatch.state # NoState /\ lastDispatch.by # "redirect" =>
        \A c \in Range(lastDispatch.waiters) : promises[c].status # "pending"

\* C38 for a run given an error, an error description or a token.
C38_GivenTokenOrError ==
    (/\ lastDispatch.state # NoState
     /\ lastDispatch.by # "redirect"
     /\ (lastDispatch.errorDesc # Null \/ lastDispatch.error # Null
           \/ lastDispatch.token # Null))
        => \A c \in Range(lastDispatch.waiters) : promises[c].status # "pending"

\* The dispatch callback of a state has run with neither token nor error:
\* its registration is gone and its waiter is left pending.
C38_WaiterLeftPending ==
    /\ lastDispatch.state # NoState
    /\ lastDispatch.by # "redirect"
    /\ lastDispatch.token = Null /\ lastDispatch.errorDesc = Null
    /\ lastDispatch.error = Null
    /\ window.callBackMappedToRenewStates[lastDispatch.state] = Null
    /\ \E c \in Range(lastDispatch.waiters) : promises[c].status = "pending"



\* C39: a run of the token-received callback (the redirect callback or the
\* dispatch callback of a state) given an error or an error description is
\* given no token.
C39_AsStated ==
    (/\ lastDispatch.by # Null
     /\ (lastDispatch.errorDesc # Null \/ lastDispatch.error # Null))
        => lastDispatch.token = Null

\* C39 for the errors the server sends: a response with an error parameter
\* of its own carries no token to the callback.
C39_ServerError ==
    (/\ lastDispatch.by # Null
     /\ lastResponse.handled
     /\ lastDispatch.error \notin {Null, "invalid idToken", "Invalid_state"})
        => lastDispatch.token = Null

\* The callback has been given the id token that failed validation together
\* with the error of the validation.
C39_InvalidIdTokenPassed ==
    /\ lastDispatch.by # Null
    /\ lastDispatch.error = "invalid idToken"
    /\ lastDispatch.token # Null
    /\ lastDispatch.token = lastResponse.parameters.id_token



\* The entry points of a login attempt and of an acquire-token attempt.
LoginApis == {"loginPopup", "loginRedirect"}

AcquireTokenApis == {"acquireTokenPopup", "acquireTokenRedirect"}

\* An attempt of one of the entry points is still in progress: its call is
\* pending and its popup is open and polled.
AttemptInProgress(apis) ==
    \E i \in DOMAIN window.openedWindows :
        /\ promises[window.openedWindows[i].promise].api \in apis
        /\ promises[window.openedWindows[i].promise].status = "pending"
        /\ ~window.openedWindows[i].closed
        /\ window.openedWindows[i].polling

\* A step is the end of an attempt of one of the entry points: its popup is
\* blocked, the poll timer finds its popup at the redirect URI or closed, or
\* its response is handled.
EndsAttempt(apis) ==
    \/ /\ Len(promises') = Len(promises) + 1
       /\ promises'[Len(promises')].api \in apis
       /\ promises'[Len(promises')].value
              = "popup_window_error|Error opening popup window"
    \/ \E i \in DOMAIN window.openedWindows :
           /\ promises[window.openedWindows[i].promise].api \in apis
           /\ window.openedWindows[i].polling
           /\ ~window'.openedWindows[i].polling
    \/ /\ lastResponse' # lastResponse
       /\ lastResponse'.call \in DOMAIN promises
       /\ promises[lastResponse'.call].api \in apis

\* C40: the end of an acquire-token attempt leaves pLoginInProgress set while
\* a login attempt is in progress, and the end of a login attempt leaves
\* pAcquireTokenInProgress set while an acquire-token attempt is in progress.
C40_AsStated ==
    [][ /\ (EndsAttempt(AcquireTokenApis) /\ AttemptInProgress(LoginApis)
              /\ msal.pLoginInProgress) => msal'.pLoginInProgress
        /\ (EndsAttempt(LoginApis) /\ AttemptInProgress(AcquireTokenApis)
              /\ msal.pAcquireTokenInProgress) => msal'.pAcquireTokenInProgress
      ]_vars

\* C40 for error responses alone: handling an error response clears only the
\* flag of the request type the response is classified as.
C40_ErrorResponse ==
    [][ (/\ lastResponse' # lastResponse
         /\ lastResponse'.parameters.error # Null
         /\ lastResponse'.stateMatch)
          => /\ lastResponse'.requestType = RENEW_TOKEN
                   => msal'.pLoginInProgress = msal.pLoginInProgress
             /\ lastResponse'.requestType = LOGIN
                   => msal'.pAcquireTokenInProgress = msal.pAcquireTokenInProgress
      ]_vars

\* A blocked acquire-token popup has cleared the login flag while the popup
\* of a login is open.
C40_LoginFlagCleared ==
    /\ AttemptInProgress({"loginPopup"})
    /\ ~msal.pLoginInProgress
    /\ \E c \in DOMAIN promises :
           /\ promises[c].api = "acquireTokenPopup"
           /\ promises[c].value = "popup_window_error|Error opening popup window"

=============================================================================
